---------------------------- MODULE Spec2Model ----------------------------
(***************************************************************************)
(* A model of the Eon parsing / formatting core (crates/eon_syntax) and of *)
(* the number model (crates/eon/src/value/number.rs).                      *)
(*                                                                         *)
(* Text is a sequence of one-character strings; byte offsets are 0-based   *)
(* as in the Rust code, so the character at offset i of s is s[i + 1].     *)
(* Every character of the model is one byte long.                          *)
(***************************************************************************)
EXTENDS Integers, Sequences, FiniteSets, TLC

VARIABLES
    input,        \* the text handed to the first reformat call
    options,      \* the FormatOptions of both reformat calls
    calls,        \* finished reformat calls: <<[source, deepest, top, formatter]>>
    eon_source,   \* parse_top_str: the text being parsed
    lexer,        \* PlacedTokenIter: the token logos yields from each offset of eon_source
    top,          \* parse_top_str: its position and its locals (tokens_a, map, err_a, ..)
    tokens,       \* the PeekableIter in use (tokens_a, then tokens_b)
    stack,        \* the frames of parse_list_contents / parse_map_contents / parse_token_tree
    ret,          \* the value the last returned call handed to its caller
    deepest,      \* the largest recurse_depth with which parse_token_tree passed its guard
    raw,          \* strings: the raw string handed to escape_and_quote
    quoted,       \* strings: what escape_and_quote returned
    unquoted,     \* strings: what unescape_and_unquote returned for it
    num_a,        \* numbers: the Number under test
    num_b,        \* numbers: a second Number, compared with num_a
    num_r,        \* numbers: the result of the last operation
    subject,      \* values: the Value handed to Value::format
    subject_text, \* values: the String Value::format returned
    subject_back, \* values: what Value::from_str returned for that String
    hasher,       \* maps: what hash_of returns for each value
    maps,         \* maps: the two Maps, a and b
    inserts       \* maps: the calls of Map::insert made on each, oldest first

vars == <<input, options, calls, eon_source, lexer, top, tokens, stack, ret, deepest,
          raw, quoted, unquoted, num_a, num_b, num_r, subject, subject_text, subject_back,
          hasher, maps, inserts>>

parse_vars == <<input, options, calls, eon_source, lexer, top, tokens, stack, ret, deepest>>
string_vars == <<raw, quoted, unquoted>>
number_vars == <<num_a, num_b, num_r>>
value_vars == <<subject, subject_text, subject_back>>
map_vars == <<hasher, maps, inserts>>

(***************************************************************************)
(* Option<T>: None is the empty sequence, Some(x) is <<x>>.                *)
(***************************************************************************)
None == <<>>
Some(x) == <<x>>

Max(a, b) == IF a >= b THEN a ELSE b
Min(a, b) == IF a <= b THEN a ELSE b

(***************************************************************************)
(* Characters.                                                             *)
(***************************************************************************)
Letters ==
    {"a","b","c","d","e","f","g","h","i","j","k","l","m","n","o","p","q","r","s","t",
     "u","v","w","x","y","z","A","B","C","D","E","F","G","H","I","J","K","L","M","N",
     "O","P","Q","R","S","T","U","V","W","X","Y","Z"}
Digits == {"0","1","2","3","4","5","6","7","8","9"}

\* #[logos(skip r"[ \t\n\f]*")]
Whitespace == {" ", "\t", "\n", "\f"}
\* [a-zA-Z_] and [a-zA-Z0-9_]
IdentStart == Letters \cup {"_"}
IdentRest == Letters \cup Digits \cup {"_"}
\* [+\-0-9\.] and [0-9a-zA-Z\.+\-_]
NumberStart == Digits \cup {"+", "-", "."}
NumberRest == Digits \cup Letters \cup {".", "+", "-", "_"}

Punctuation ==
    [c \in {"[", "]", "{", "}", "(", ")", ":", ","} |->
        CASE c = "[" -> "OpenList"
          [] c = "]" -> "CloseList"
          [] c = "{" -> "OpenBrace"
          [] c = "}" -> "CloseBrace"
          [] c = "(" -> "OpenParen"
          [] c = ")" -> "CloseParen"
          [] c = ":" -> "Colon"
          [] c = "," -> "Comma"]

StringKinds ==
    {"DoubleQuotedString", "SingleQuotedString", "MultilineBasicString",
     "MultilineLiteralString"}

\* impl Display for TokenKind
Display(kind) ==
    CASE kind = "Comment" -> "// comment"
      [] kind = "OpenList" -> "open bracket '['"
      [] kind = "CloseList" -> "close bracket ']'"
      [] kind = "OpenBrace" -> "open brace '{'"
      [] kind = "CloseBrace" -> "close brace '}'"
      [] kind = "OpenParen" -> "open parenthesis '('"
      [] kind = "CloseParen" -> "close parenthesis ')'"
      [] kind = "Colon" -> "colon ':'"
      [] kind = "Comma" -> "comma ','"
      [] kind = "Identifier" -> "identifier"
      [] kind = "Number" -> "number"
      [] kind = "DoubleQuotedString" -> "\"basic string\""
      [] kind = "SingleQuotedString" -> "'literal string'"
      [] kind = "MultilineBasicString" -> "\"\"multiline basic string\"\""
      [] kind = "MultilineLiteralString" -> "'''multiline literal string'''"

(***************************************************************************)
(* Spans and slices.                                                       *)
(***************************************************************************)
Span(start, end) == [start |-> start, end |-> end]

\* impl BitOr for Span
SpanUnion(a, b) == Span(Min(a.start, b.start), Max(a.end, b.end))

RECURSIVE Concat(_)
\* The texts of a sequence of texts, one after the other.
Concat(texts) == IF texts = <<>> THEN <<>> ELSE Head(texts) \o Concat(Tail(texts))

\* &source[start..end]
Slice(s, start, end) == SubSeq(s, start + 1, end)

\* str::contains(char)
Contains(s, c) == \E i \in 1..Len(s) : s[i] = c

(***************************************************************************)
(* The tokenizer: the regular expressions of TokenKind, longest match.     *)
(***************************************************************************)
RECURSIVE ScanIn(_, _, _)
\* The offset after the longest run of characters of `class` starting at offset i.
ScanIn(s, i, class) ==
    IF i < Len(s) /\ s[i + 1] \in class THEN ScanIn(s, i + 1, class) ELSE i

RECURSIVE ScanNotIn(_, _, _)
\* The offset after the longest run of characters outside `class` starting at offset i.
ScanNotIn(s, i, class) ==
    IF i < Len(s) /\ s[i + 1] \notin class THEN ScanNotIn(s, i + 1, class) ELSE i

RECURSIVE DoubleQuotedEnd(_, _)
\* "([^"\\]|\\.)*" from inside the string at offset i: the offset after the closing
\* quote, or -1 when the expression does not match ('.' matches no newline).
DoubleQuotedEnd(s, i) ==
    IF i >= Len(s) THEN -1
    ELSE IF s[i + 1] = "\"" THEN i + 1
    ELSE IF s[i + 1] = "\\"
         THEN IF i + 1 < Len(s) /\ s[i + 2] # "\n" THEN DoubleQuotedEnd(s, i + 2) ELSE -1
    ELSE DoubleQuotedEnd(s, i + 1)

\* '([^'])*' from inside the string at offset i.
SingleQuotedEnd(s, i) ==
    LET j == ScanNotIn(s, i, {"'"}) IN IF j < Len(s) THEN j + 1 ELSE -1

RECURSIVE MultilineEnd(_, _, _)
\* qqq([^q]|q[^q]|qq[^q])*qqq from inside the string at offset i.
MultilineEnd(s, i, q) ==
    IF i >= Len(s) THEN -1
    ELSE IF s[i + 1] # q THEN MultilineEnd(s, i + 1, q)
    ELSE IF i + 1 >= Len(s) THEN -1
    ELSE IF s[i + 2] # q THEN MultilineEnd(s, i + 2, q)
    ELSE IF i + 2 >= Len(s) THEN -1
    ELSE IF s[i + 3] # q THEN MultilineEnd(s, i + 3, q)
    ELSE i + 3

\* A quoted string starting at offset i with quote character q: the longer of the
\* one-line and the multiline match.
QuotedToken(s, i, q) ==
    LET one == IF q = "\"" THEN DoubleQuotedEnd(s, i + 1) ELSE SingleQuotedEnd(s, i + 1)
        triple == i + 2 < Len(s) /\ s[i + 2] = q /\ s[i + 3] = q
        multi == IF triple THEN MultilineEnd(s, i + 3, q) ELSE -1
    IN  IF multi > one
        THEN [some |-> TRUE, span |-> Span(i, multi),
              kind |-> IF q = "\"" THEN "MultilineBasicString" ELSE "MultilineLiteralString"]
        ELSE IF one >= 0
        THEN [some |-> TRUE, span |-> Span(i, one),
              kind |-> IF q = "\"" THEN "DoubleQuotedString" ELSE "SingleQuotedString"]
        ELSE [some |-> TRUE, span |-> Span(i, i + 1), kind |-> "Error"]

\* PlacedTokenIter::next with the lexer at offset pos: the next token (kind "Error"
\* for Err(..)), or [some |-> FALSE] at the end of the input.
Lex(s, pos) ==
    LET i == ScanIn(s, pos, Whitespace) IN
    IF i >= Len(s) THEN [some |-> FALSE]
    ELSE LET c == s[i + 1] IN
         IF c = "/" /\ i + 1 < Len(s) /\ s[i + 2] = "/"
         THEN [some |-> TRUE, span |-> Span(i, ScanNotIn(s, i + 2, {"\n"})), kind |-> "Comment"]
         ELSE IF c \in DOMAIN Punctuation
         THEN [some |-> TRUE, span |-> Span(i, i + 1), kind |-> Punctuation[c]]
         ELSE IF c \in IdentStart
         THEN [some |-> TRUE, span |-> Span(i, ScanIn(s, i + 1, IdentRest)), kind |-> "Identifier"]
         ELSE IF c \in NumberStart
         THEN [some |-> TRUE, span |-> Span(i, ScanIn(s, i + 1, NumberRest)), kind |-> "Number"]
         ELSE IF c \in {"\"", "'"}
         THEN QuotedToken(s, i, c)
         ELSE [some |-> TRUE, span |-> Span(i, i + 1), kind |-> "Error"]

\* PlacedToken.slice
TokenSlice(s, t) == Slice(s, t.span.start, t.span.end)

\* Error::new_at(source, span, message)
ErrorAt(span, message) == [span |-> span, message |-> message]

\* PlacedTokenResult::ok of an Err(..) token
InvalidToken(s, t) == ErrorAt(t.span, <<"Invalid token: '">> \o TokenSlice(s, t) \o <<"'">>)

(***************************************************************************)
(* PeekableIter.  `pos` is the offset of the first byte no returned token  *)
(* covers; `peeked` says whether the field `peeked` holds Some(..), and    *)
(* what it holds is then Lex(source, pos).                                 *)
(***************************************************************************)
\* PeekableIter::new
NewPeekableIter == [pos |-> 0, peeked |-> FALSE, last_span |-> Span(0, 0)]

\* PeekableIter::peek: the token it returns
peek(tk) == lexer[tk.pos]

\* PeekableIter::peek: the iterator afterwards
Peeked(tk) == [tk EXCEPT !.peeked = TRUE]

\* Iterator::next for PeekableIter: the iterator afterwards (the token is peek(tk))
Advance(tk) ==
    LET t == lexer[tk.pos] IN
    IF t.some THEN [pos |-> t.span.end, peeked |-> FALSE, last_span |-> t.span]
    ELSE [tk EXCEPT !.peeked = FALSE]

\* PeekableIter::span_of_next
span_of_next(tk) ==
    LET t == lexer[tk.pos] IN IF tk.peeked /\ t.some THEN t.span ELSE tk.last_span

\* PeekableIter::span_of_previous
span_of_previous(tk) == tk.last_span

\* PeekableIter::end_span
end_span(s) == Span(Len(s), Len(s))

(***************************************************************************)
(* Results.  A panic (a failed debug_assert, unreachable!, expect or slice *)
(* index) is a third outcome next to Ok and Err.                           *)
(***************************************************************************)
Ok(v) == [kind |-> "Ok", val |-> v]
Err(e) == [kind |-> "Err", err |-> e]
Panic(m) == [kind |-> "Panic", msg |-> m]
NoResult == [kind |-> "None"]

\* const MAX_RECURSION_DEPTH: usize = 128;
MAX_RECURSION_DEPTH == 128

(***************************************************************************)
(* The token tree.  A Comment<'s> is a borrowed slice of the source: its   *)
(* offset in the source and its text.                                      *)
(***************************************************************************)
Comment(s, t) == [start |-> t.span.start, text |-> TokenSlice(s, t)]

TokenTree(span, prefix, val, suffix) ==
    [span |-> span, prefix_comments |-> prefix, value |-> val, suffix_comment |-> suffix]

Atom(tag, slice) == [tag |-> tag, slice |-> slice]
TokenList(values, closing) == [tag |-> "List", values |-> values, closing_comments |-> closing]
TokenMap(key_values, closing) ==
    [tag |-> "Map", key_values |-> key_values, closing_comments |-> closing]
TokenVariant(name_span, quoted_name, values, closing) ==
    [tag |-> "Variant", name_span |-> name_span, quoted_name |-> quoted_name,
     values |-> values, closing_comments |-> closing]

(***************************************************************************)
(* The leaf functions of the parser: each returns its result and the       *)
(* iterator it leaves behind.                                              *)
(***************************************************************************)
RECURSIVE parse_comments_reversed(_, _, _)
\* The mutant: the comments of a run are kept last to first.
parse_comments_reversed(s, tk, comments) ==
    LET t == peek(tk) IN
    IF t.some /\ t.kind = "Comment"
    THEN parse_comments_reversed(s, Advance(tk), <<Comment(s, t)>> \o comments)
    ELSE [comments |-> comments, tokens |-> Peeked(tk)]

RECURSIVE parse_comments_loop(_, _, _)
parse_comments_loop(s, tk, comments) ==
    LET t == peek(tk) IN
    IF t.some /\ t.kind = "Comment"
    THEN parse_comments_loop(s, Advance(tk), Append(comments, Comment(s, t)))
    ELSE [comments |-> comments, tokens |-> Peeked(tk)]

\* The mutant: only the first comment of a run is consumed.
parse_comments_once(s, tk) ==
    LET t == peek(tk) IN
    IF t.some /\ t.kind = "Comment"
    THEN [comments |-> <<Comment(s, t)>>, tokens |-> Advance(tk)]
    ELSE [comments |-> <<>>, tokens |-> Peeked(tk)]

\* fn parse_comments
parse_comments(s, tk) == parse_comments_loop(s, tk, <<>>)

\* The mutant: the comment is taken as a suffix comment whatever line it is on.
parse_suffix_comment_any_line(s, tk) ==
    LET t == peek(tk) IN
    IF t.some /\ t.kind = "Comment"
    THEN [res |-> Ok(Some(Comment(s, t))), tokens |-> Advance(tk)]
    ELSE [res |-> Ok(None), tokens |-> Peeked(tk)]

\* fn parse_suffix_comment
parse_suffix_comment(s, tk) ==
    LET previous_token_span == span_of_previous(tk)
        t == peek(tk)
        tk1 == Peeked(tk)
    IN  IF ~t.some \/ t.kind # "Comment" THEN [res |-> Ok(None), tokens |-> tk1]
        ELSE IF previous_token_span.end > t.span.start
        THEN [res |-> Panic("slice index starts after its end"), tokens |-> tk1]
        ELSE IF Contains(Slice(s, previous_token_span.end, t.span.start), "\n")
        THEN [res |-> Ok(None), tokens |-> tk1]
        ELSE LET token == lexer[tk1.pos] IN
             IF ~token.some THEN [res |-> Ok(None), tokens |-> Advance(tk1)]
             ELSE IF token.kind = "Error"
             THEN [res |-> Err(InvalidToken(s, token)), tokens |-> Advance(tk1)]
             ELSE IF token.kind # "Comment"
             THEN [res |-> Panic("Bug in parse_suffix_comment"), tokens |-> Advance(tk1)]
             ELSE [res |-> Ok(Some(Comment(s, token))), tokens |-> Advance(tk1)]

\* fn consume_token
consume_token(s, tk, expected_token) ==
    LET token == lexer[tk.pos]
        tk1 == Advance(tk)
    IN  IF token.some
        THEN IF token.kind = "Error" THEN [res |-> Err(InvalidToken(s, token)), tokens |-> tk1]
             ELSE IF token.kind = expected_token THEN [res |-> Ok(<<>>), tokens |-> tk1]
             ELSE [res |-> Err(ErrorAt(token.span,
                              <<"Expected ", Display(expected_token), " but found ",
                                Display(token.kind)>>)),
                   tokens |-> tk1]
        ELSE [res |-> Err(ErrorAt(span_of_previous(tk1),
                          <<"Expected ", Display(expected_token), " but reached end of input">>)),
              tokens |-> tk1]

\* fn check_for_trailing_tokens
check_for_trailing_tokens(s, tk) ==
    LET token == lexer[tk.pos]
        tk1 == Advance(tk)
    IN  IF token.some
        THEN IF token.kind = "Error" THEN [res |-> Err(InvalidToken(s, token)), tokens |-> tk1]
             ELSE [res |-> Err(ErrorAt(token.span, <<"Expected end of file here">>)),
                   tokens |-> tk1]
        ELSE [res |-> Ok(<<>>), tokens |-> tk1]

\* parse_list_contents / parse_map_contents, "Consume optional comma": the value
\* with the suffix comment found after its comma, when there is a comma.
optional_comma(s, tk, val) ==
    LET t == peek(tk) IN
    IF t.some /\ t.kind = "Comma"
    THEN LET sc == parse_suffix_comment(s, Advance(Peeked(tk))) IN
         IF sc.res.kind = "Ok"
         THEN [res |-> Ok([val EXCEPT !.suffix_comment = sc.res.val]), tokens |-> sc.tokens]
         ELSE sc
    ELSE [res |-> Ok(val), tokens |-> Peeked(tk)]

\* finish_token_tree, were the span taken after the suffix comment.
finish_token_tree_with_suffix(s, tk, prefix, start_span, val) ==
    LET sc == parse_suffix_comment(s, tk)
        span == SpanUnion(start_span, span_of_previous(sc.tokens))
    IN  IF sc.res.kind = "Ok"
        THEN [res |-> Ok(TokenTree(span, prefix, val, sc.res.val)), tokens |-> sc.tokens]
        ELSE sc

\* parse_token_tree, from `let span = ...` to its end: the node for `val`.
finish_token_tree(s, tk, prefix, start_span, val) ==
    LET span == SpanUnion(start_span, span_of_previous(tk))
        sc == parse_suffix_comment(s, tk)
    IN  IF sc.res.kind = "Ok"
        THEN [res |-> Ok(TokenTree(span, prefix, val, sc.res.val)), tokens |-> sc.tokens]
        ELSE sc

(***************************************************************************)
(* The call stack of the recursive descent.                                *)
(***************************************************************************)
ListFrame(depth) ==
    [fn |-> "parse_list_contents", pc |-> "loop", recurse_depth |-> depth,
     values |-> <<>>, prefix_comments |-> <<>>]
MapFrame(depth) ==
    [fn |-> "parse_map_contents", pc |-> "loop", recurse_depth |-> depth,
     key_values |-> <<>>, prefix_comments |-> <<>>, key |-> None]
TreeFrame(depth) ==
    [fn |-> "parse_token_tree", pc |-> "enter", recurse_depth |-> depth,
     prefix_comments |-> <<>>, token |-> None, start_span |-> Span(0, 0)]

Top == stack[Len(stack)]
Popped == SubSeq(stack, 1, Len(stack) - 1)
Running(fn, pc) == stack # <<>> /\ Top.fn = fn /\ Top.pc = pc

\* The callee on top of the stack returns `res`, leaving the iterator `tk`.
Return(res, tk) ==
    /\ stack' = Popped
    /\ ret' = res
    /\ tokens' = tk

\* The frame on top becomes `frame` and calls `callee`, with the iterator `tk`.
Call(frame, callee, tk) ==
    /\ stack' = Append(Append(Popped, frame), callee)
    /\ ret' = NoResult
    /\ tokens' = tk

\* The frame on top becomes `frame` and goes on, with the iterator `tk`.
Continue(frame, tk) ==
    /\ stack' = Append(Popped, frame)
    /\ ret' = NoResult
    /\ tokens' = tk

ClosesContents(t) == ~t.some \/ t.kind \in {"CloseBrace", "CloseList", "CloseParen"}

\* fn parse_list_contents: the head of the loop
list_loop ==
    /\ Running("parse_list_contents", "loop")
    /\ LET c == parse_comments(eon_source, tokens) IN
       IF ClosesContents(peek(c.tokens))
       THEN Return(Ok(TokenList(Top.values, c.comments)), c.tokens)
       ELSE Call([Top EXCEPT !.pc = "value", !.prefix_comments = c.comments],
                 TreeFrame(Top.recurse_depth + 1), c.tokens)
    /\ UNCHANGED <<string_vars, number_vars, value_vars, map_vars, input, options, calls, eon_source, lexer, top, deepest>>

\* fn parse_list_contents: after parse_token_tree returned the value
list_value ==
    /\ Running("parse_list_contents", "value")
    /\ IF ret.kind # "Ok" THEN Return(ret, tokens)
       ELSE LET merged == [ret.val EXCEPT
                              !.prefix_comments = Top.prefix_comments \o @]
                c == optional_comma(eon_source, tokens, merged)
            IN  IF c.res.kind # "Ok" THEN Return(c.res, c.tokens)
                ELSE Continue([Top EXCEPT !.pc = "loop", !.prefix_comments = <<>>,
                                          !.values = Append(@, c.res.val)],
                              c.tokens)
    /\ UNCHANGED <<string_vars, number_vars, value_vars, map_vars, input, options, calls, eon_source, lexer, top, deepest>>

\* fn parse_map_contents: the head of the loop
map_loop ==
    /\ Running("parse_map_contents", "loop")
    /\ LET c == parse_comments(eon_source, tokens) IN
       IF ClosesContents(peek(c.tokens))
       THEN Return(Ok(TokenMap(Top.key_values, c.comments)), c.tokens)
       ELSE Call([Top EXCEPT !.pc = "key", !.prefix_comments = c.comments],
                 TreeFrame(Top.recurse_depth + 1), c.tokens)
    /\ UNCHANGED <<string_vars, number_vars, value_vars, map_vars, input, options, calls, eon_source, lexer, top, deepest>>

\* fn parse_map_contents: after parse_token_tree returned the key
map_key ==
    /\ Running("parse_map_contents", "key")
    /\ IF ret.kind # "Ok" THEN Return(ret, tokens)
       ELSE IF ret.val.prefix_comments # <<>>
       THEN Return(Panic("We should have already consumed these"), tokens)
       ELSE LET key == [ret.val EXCEPT !.prefix_comments = Top.prefix_comments]
                c == consume_token(eon_source, tokens, "Colon")
            IN  IF c.res.kind # "Ok" THEN Return(c.res, c.tokens)
                ELSE Call([Top EXCEPT !.pc = "value", !.prefix_comments = <<>>,
                                      !.key = Some(key)],
                          TreeFrame(Top.recurse_depth + 1), c.tokens)
    /\ UNCHANGED <<string_vars, number_vars, value_vars, map_vars, input, options, calls, eon_source, lexer, top, deepest>>

\* fn parse_map_contents: after parse_token_tree returned the value
map_value ==
    /\ Running("parse_map_contents", "value")
    /\ IF ret.kind # "Ok" THEN Return(ret, tokens)
       ELSE LET c == optional_comma(eon_source, tokens, ret.val) IN
            IF c.res.kind # "Ok" THEN Return(c.res, c.tokens)
            ELSE Continue([Top EXCEPT !.pc = "loop", !.key = None,
                                      !.key_values =
                                          Append(@, [key |-> Top.key[1], value |-> c.res.val])],
                          c.tokens)
    /\ UNCHANGED <<string_vars, number_vars, value_vars, map_vars, input, options, calls, eon_source, lexer, top, deepest>>

\* The mutant: parse_token_tree without its guard.
depth_never_exceeded(recurse_depth) == FALSE

\* The guard of parse_token_tree, were one more level of brackets allowed.
depth_exceeded_one_level_later(recurse_depth) == recurse_depth >= MAX_RECURSION_DEPTH + 2

\* The guard of parse_token_tree.
depth_exceeded(recurse_depth) == recurse_depth >= MAX_RECURSION_DEPTH

\* The error of a token that starts no value.
not_a_value(token) ==
    CASE token.kind = "CloseList" -> ErrorAt(token.span, <<"Unbalanced brackets">>)
      [] token.kind = "CloseBrace" -> ErrorAt(token.span, <<"Unbalanced braces">>)
      [] token.kind = "CloseParen" -> ErrorAt(token.span, <<"Unbalanced parentheses">>)
      [] token.kind = "OpenParen" ->
            ErrorAt(token.span, <<"Parentheses must be proceeded by a string">>)
      [] token.kind \in {"Colon", "Comma"} ->
            ErrorAt(token.span, <<"Expected a value, like a map, list, number, or string">>)

\* The mutant: an identifier before '(' names a variant too.
names_variant_or_identifier(token, peeked) ==
    /\ token.kind \in StringKinds \cup {"Identifier"}
    /\ peeked.some /\ peeked.kind = "OpenParen"

\* parse_token_tree, the arm of the four kinds of string: the token is the name of
\* a variant when the token peeked after it is '('
names_variant(token, peeked) ==
    /\ token.kind \in StringKinds
    /\ peeked.some /\ peeked.kind = "OpenParen"

\* fn parse_token_tree: from its entry to the call of parse_list_contents /
\* parse_map_contents, or to its return for a value of one token
tree_enter ==
    /\ Running("parse_token_tree", "enter")
    /\ IF depth_exceeded(Top.recurse_depth)
       THEN /\ Return(Err(ErrorAt(span_of_previous(tokens),
                         <<"Maximum recursion depth exceeded while parsing document">>)),
                      tokens)
            /\ UNCHANGED deepest
       ELSE
       /\ deepest' = Max(deepest, Top.recurse_depth)
       /\ LET c == parse_comments(eon_source, tokens)
              token == lexer[c.tokens.pos]
              tk1 == Advance(c.tokens)
              start_span == span_of_next(tk1)
              frame == [Top EXCEPT !.prefix_comments = c.comments, !.token = Some(token),
                                   !.start_span = start_span]
          IN  IF ~token.some
              THEN Return(Err(ErrorAt(end_span(eon_source),
                              <<"Unexpected end of input: expected a value">>)), tk1)
              ELSE IF token.kind = "Error"
              THEN Return(Err(InvalidToken(eon_source, token)), tk1)
              ELSE IF token.kind = "OpenList"
              THEN Call([frame EXCEPT !.pc = "list"], ListFrame(Top.recurse_depth + 1), tk1)
              ELSE IF token.kind = "OpenBrace"
              THEN Call([frame EXCEPT !.pc = "map"], MapFrame(Top.recurse_depth + 1), tk1)
              ELSE IF names_variant(token, peek(tk1))
              THEN Call([frame EXCEPT !.pc = "variant"],
                        ListFrame(Top.recurse_depth + 1),
                        Advance(Peeked(tk1)))
              ELSE IF token.kind \in {"Identifier", "Number"}
              THEN LET r == finish_token_tree(eon_source, tk1, c.comments, start_span,
                                Atom(token.kind, TokenSlice(eon_source, token)))
                   IN  Return(r.res, r.tokens)
              ELSE IF token.kind \in StringKinds
              THEN LET r == finish_token_tree(eon_source, Peeked(tk1), c.comments,
                                start_span,
                                Atom("QuotedString", TokenSlice(eon_source, token)))
                   IN  Return(r.res, r.tokens)
              ELSE IF token.kind = "Comment"
              THEN Return(Panic("We should have already consumed comments"), tk1)
              ELSE Return(Err(not_a_value(token)), tk1)
    /\ UNCHANGED <<string_vars, number_vars, value_vars, map_vars, input, options, calls, eon_source, lexer, top>>

\* fn parse_token_tree: after parse_list_contents / parse_map_contents returned the
\* contents of a list, a map or a variant
tree_close ==
    /\ stack # <<>> /\ Top.fn = "parse_token_tree" /\ Top.pc \in {"list", "map", "variant"}
    /\ IF ret.kind # "Ok" THEN Return(ret, tokens)
       ELSE LET token == Top.token[1]
                closing == CASE Top.pc = "list" -> "CloseList"
                             [] Top.pc = "map" -> "CloseBrace"
                             [] Top.pc = "variant" -> "CloseParen"
                c == consume_token(eon_source, tokens, closing)
                val == IF Top.pc = "variant"
                       THEN TokenVariant(Some(token.span), TokenSlice(eon_source, token),
                                         ret.val.values, ret.val.closing_comments)
                       ELSE ret.val
            IN  IF c.res.kind # "Ok" THEN Return(c.res, c.tokens)
                ELSE LET r == finish_token_tree(eon_source, c.tokens, Top.prefix_comments,
                                  Top.start_span, val)
                     IN  Return(r.res, r.tokens)
    /\ UNCHANGED <<string_vars, number_vars, value_vars, map_vars, input, options, calls, eon_source, lexer, top, deepest>>

(***************************************************************************)
(* The formatter.  A Formatter is [options, indent, out].                  *)
(***************************************************************************)
\* impl Default for FormatOptions
DefaultOptions ==
    [indentation |-> <<"\t">>, newline |-> <<"\n">>, space_before_suffix_comment |-> <<" ">>,
     key_value_separator |-> <<":", " ">>, always_include_outer_braces |-> FALSE]

\* Formatter::new
NewFormatter(o) == [options |-> o, indent |-> 0, out |-> <<>>]

\* self.out.push_str(..) / self.out.push(..)
push_str(f, text) == [f EXCEPT !.out = @ \o text]

RECURSIVE Repeated(_, _)
Repeated(text, n) == IF n <= 0 THEN <<>> ELSE text \o Repeated(text, n - 1)

\* Formatter::add_indent
add_indent(f) == push_str(f, Repeated(f.options.indentation, f.indent))

RECURSIVE indented_comments(_, _)
\* Formatter::indented_comments
indented_comments(f, comments) ==
    IF comments = <<>> THEN f
    ELSE indented_comments(push_str(push_str(add_indent(f), Head(comments).text), <<"\n">>),
                           Tail(comments))

\* Formatter::suffix_comment
format_suffix_comment(f, comment) ==
    IF comment = None THEN f ELSE push_str(push_str(f, <<" ">>), comment[1].text)

\* should_format_values_on_one_line: `estimated_width < 60`
WidthLimit == 60

\* is_simple, were a string with a line break simple too.
is_simple_any_string(tt) ==
    /\ tt.prefix_comments = <<>> /\ tt.suffix_comment = None
    /\ \/ tt.value.tag \in {"Identifier", "Number", "QuotedString"}
       \/ tt.value.tag \in {"List", "Variant"}
          /\ tt.value.values = <<>> /\ tt.value.closing_comments = <<>>
       \/ tt.value.tag = "Map"
          /\ tt.value.key_values = <<>> /\ tt.value.closing_comments = <<>>

\* fn is_simple
is_simple(tt) ==
    IF tt.prefix_comments = <<>> /\ tt.suffix_comment = None
    THEN CASE tt.value.tag \in {"Identifier", "Number"} -> TRUE
           [] tt.value.tag = "QuotedString" -> ~Contains(tt.value.slice, "\n")
           [] tt.value.tag = "List" ->
                tt.value.values = <<>> /\ tt.value.closing_comments = <<>>
           [] tt.value.tag = "Map" ->
                tt.value.key_values = <<>> /\ tt.value.closing_comments = <<>>
           [] tt.value.tag = "Variant" ->
                tt.value.values = <<>> /\ tt.value.closing_comments = <<>>
    ELSE FALSE

RECURSIVE estimated_width(_)
\* should_format_values_on_one_line: the loop that adds up estimated_width
estimated_width(values) ==
    IF values = <<>> THEN 0
    ELSE (IF Head(values).value.tag = "QuotedString" THEN Len(Head(values).value.slice) ELSE 5)
         + 2 + estimated_width(Tail(values))

\* fn should_format_values_on_one_line
should_format_values_on_one_line(values) ==
    IF ~(\A i \in 1..Len(values) : is_simple(values[i])) THEN FALSE
    ELSE IF Len(values) <= 4 /\ \A i \in 1..Len(values) : values[i].value.tag = "Number"
    THEN TRUE
    ELSE IF Len(values) > 4 THEN FALSE
    ELSE estimated_width(values) < WidthLimit

\* fn should_format_list_on_one_line / fn should_format_variant_on_one_line
should_format_on_one_line(v) ==
    v.closing_comments = <<>> /\ should_format_values_on_one_line(v.values)

RECURSIVE format_value(_, _)
RECURSIVE indented_value(_, _)
RECURSIVE one_line_values(_, _, _)
RECURSIVE values_loop(_, _, _, _)
RECURSIVE list_content(_, _)
RECURSIVE format_list(_, _)
RECURSIVE key_values_loop(_, _, _, _)
RECURSIVE map_content(_, _)
RECURSIVE format_map(_, _)
RECURSIVE indented_key_value(_, _)
RECURSIVE format_variant(_, _)

\* Formatter::value
format_value(f, v) ==
    CASE v.tag \in {"Identifier", "Number", "QuotedString"} -> push_str(f, v.slice)
      [] v.tag = "List" -> format_list(f, v)
      [] v.tag = "Map" -> format_map(f, v)
      [] v.tag = "Variant" -> format_variant(f, v)

\* Formatter::indented_value
indented_value(f, tt) ==
    format_suffix_comment(
        format_value(add_indent(indented_comments(f, tt.prefix_comments)), tt.value),
        tt.suffix_comment)

\* Formatter::list / Formatter::variant: the loop over the values of one line, from
\* the i-th on
one_line_values(f, values, i) ==
    IF i > Len(values) THEN f
    ELSE LET f1 == format_value(f, values[i].value)
             separator == IF i + 1 <= Len(values) THEN <<",", " ">> ELSE <<>>
         IN  one_line_values(push_str(f1, separator), values, i + 1)

\* Formatter::list_content / Formatter::variant: the loop over the values, one per
\* line, from the i-th on
values_loop(f, values, i, add_blank_lines) ==
    IF i > Len(values) THEN f
    ELSE LET f1 == push_str(indented_value(f, values[i]), <<"\n">>)
             blank == IF add_blank_lines /\ i + 1 <= Len(values) THEN <<"\n">> ELSE <<>>
         IN  values_loop(push_str(f1, blank), values, i + 1, add_blank_lines)

\* Formatter::list_content, and the last branch of Formatter::variant
list_content(f, v) ==
    LET add_blank_lines == \E i \in 1..Len(v.values) : v.values[i].prefix_comments # <<>>
        f1 == values_loop(f, v.values, 1, add_blank_lines)
        blank == IF add_blank_lines /\ v.closing_comments # <<>> THEN <<"\n">> ELSE <<>>
    IN  indented_comments(push_str(f1, blank), v.closing_comments)

\* self.indent += 1 / self.indent -= 1
indent_by(f, n) == [f EXCEPT !.indent = @ + n]

\* Formatter::list
format_list(f, v) ==
    IF v.values = <<>> /\ v.closing_comments = <<>> THEN push_str(f, <<"[", "]">>)
    ELSE IF should_format_on_one_line(v)
    THEN push_str(one_line_values(push_str(f, <<"[">>), v.values, 1), <<"]">>)
    ELSE LET f1 == push_str(indent_by(push_str(f, <<"[">>), 1), <<"\n">>)
             f2 == list_content(f1, v)
         IN  push_str(add_indent(indent_by(f2, -1)), <<"]">>)

RECURSIVE key_values_loop_merging(_, _, _, _)
\* The mutant: an entry whose key was written before is left out.
key_values_loop_merging(f, key_values, i, add_blank_lines) ==
    IF i > Len(key_values) THEN f
    ELSE IF \E j \in 1..(i - 1) : key_values[j].key.value = key_values[i].key.value
    THEN key_values_loop_merging(f, key_values, i + 1, add_blank_lines)
    ELSE LET f1 == push_str(indented_key_value(f, key_values[i]), <<"\n">>)
             blank == IF add_blank_lines /\ i + 1 <= Len(key_values) THEN <<"\n">> ELSE <<>>
         IN  key_values_loop_merging(push_str(f1, blank), key_values, i + 1, add_blank_lines)

\* Formatter::map_content: the loop over the entries, from the i-th on
key_values_loop(f, key_values, i, add_blank_lines) ==
    IF i > Len(key_values) THEN f
    ELSE LET f1 == push_str(indented_key_value(f, key_values[i]), <<"\n">>)
             blank == IF add_blank_lines /\ i + 1 <= Len(key_values) THEN <<"\n">> ELSE <<>>
         IN  key_values_loop(push_str(f1, blank), key_values, i + 1, add_blank_lines)

\* Formatter::map_content
map_content(f, m) ==
    LET add_blank_lines ==
            \E i \in 1..Len(m.key_values) : m.key_values[i].key.prefix_comments # <<>>
        f1 == key_values_loop(f, m.key_values, 1, add_blank_lines)
        blank == IF add_blank_lines /\ m.closing_comments # <<>> THEN <<"\n">> ELSE <<>>
    IN  indented_comments(push_str(f1, blank), m.closing_comments)

\* Formatter::map
format_map(f, m) ==
    IF m.key_values = <<>> /\ m.closing_comments = <<>> THEN push_str(f, <<"{", "}">>)
    ELSE LET f1 == push_str(indent_by(push_str(f, <<"{">>), 1), <<"\n">>)
             f2 == map_content(f1, m)
         IN  push_str(add_indent(indent_by(f2, -1)), <<"}">>)

\* Formatter::indented_key_value
indented_key_value(f, kv) ==
    LET f1 == indented_comments(f, kv.key.prefix_comments)
        f2 == indented_comments(f1, kv.value.prefix_comments)
        f3 == format_value(add_indent(f2), kv.key.value)
        f4 == push_str(f3, f.options.key_value_separator)
        f5 == format_value(f4, kv.value.value)
    IN  format_suffix_comment(f5, kv.value.suffix_comment)

\* Formatter::variant
format_variant(f, v) ==
    LET named == push_str(f, v.quoted_name)
        sole == v.values[1].value
    IN  IF v.values = <<>> /\ v.closing_comments = <<>> THEN named
        ELSE IF should_format_on_one_line(v)
        THEN push_str(one_line_values(push_str(named, <<"(">>), v.values, 1), <<")">>)
        ELSE IF v.closing_comments = <<>> /\ Len(v.values) = 1 /\ sole.tag = "Map"
        THEN IF sole.key_values = <<>> /\ sole.closing_comments = <<>>
             THEN push_str(named, <<"(", "{", " ", "}", ")">>)
             ELSE LET f1 == push_str(indent_by(push_str(named, <<"(", "{">>), 1), <<"\n">>)
                      f2 == map_content(f1, sole)
                  IN  push_str(add_indent(indent_by(f2, -1)), <<"}", ")">>)
        ELSE IF v.closing_comments = <<>> /\ Len(v.values) = 1 /\ sole.tag = "List"
        THEN IF sole.values = <<>> /\ sole.closing_comments = <<>>
             THEN push_str(named, <<"(", "[", " ", "]", ")">>)
             ELSE LET f1 == push_str(indent_by(push_str(named, <<"(", "[">>), 1), <<"\n">>)
                      f2 == list_content(f1, sole)
                  IN  push_str(add_indent(indent_by(f2, -1)), <<"]", ")">>)
        ELSE LET f1 == push_str(indent_by(push_str(named, <<"(">>), 1), <<"\n">>)
                 f2 == list_content(f1, v)
             IN  push_str(add_indent(indent_by(f2, -1)), <<")">>)

\* TokenTree::format, up to the call of Formatter::finish: the formatter at the end
format(tt, o) ==
    LET f == NewFormatter(o) IN
    IF ~o.always_include_outer_braces /\ tt.value.tag = "Map"
    THEN format_suffix_comment(map_content(indented_comments(f, tt.prefix_comments), tt.value),
                               tt.suffix_comment)
    ELSE indented_value(f, tt)

\* Formatter::finish
finish(f) == IF f.indent = 0 THEN Ok(f.out) ELSE Panic("Formatter finished with non-zero indent")

(***************************************************************************)
(* parse_top_str and reformat.                                             *)
(***************************************************************************)
\* The locals of parse_top_str before its first statement.
IdleTop ==
    [pc |-> "idle", tokens_a |-> NewPeekableIter, map |-> None, err_a |-> None,
     tokens_b |-> None, list |-> None, err_b |-> None, trailing |-> NoResult,
     result |-> NoResult]

\* How many times reformat is applied, each time to the output of the last.
MaxReformats == 2

\* pub fn reformat calls TokenTree::parse_str; fn parse_top_str up to its call of
\* parse_map_contents(&mut tokens_a, 0)
parse_top_str ==
    /\ top.pc = "idle"
    /\ Len(calls) < MaxReformats
    /\ calls # <<>> => calls[Len(calls)].formatter # None
    /\ LET source == IF calls = <<>> THEN input ELSE calls[Len(calls)].formatter[1].out IN
       /\ eon_source' = source
       /\ lexer' = [pos \in 0..Len(source) |-> Lex(source, pos)]
    /\ top' = [IdleTop EXCEPT !.pc = "map"]
    /\ tokens' = NewPeekableIter
    /\ stack' = <<MapFrame(0)>>
    /\ ret' = NoResult
    /\ deepest' = 0
    /\ UNCHANGED <<string_vars, number_vars, value_vars, map_vars, input, options, calls>>

\* The node parse_top_str builds around the map or the list of a whole file.
whole_file(s, val) == TokenTree(Span(0, Len(s)), <<>>, val, None)

\* fn parse_top_str: parse_map_contents(&mut tokens_a, 0) returned
top_map ==
    /\ top.pc = "map" /\ stack = <<>>
    /\ IF ret.kind = "Ok"
       THEN LET c == check_for_trailing_tokens(eon_source, tokens) IN
            /\ top' = [top EXCEPT !.pc = "done", !.tokens_a = c.tokens,
                          !.map = Some(ret.val), !.trailing = c.res,
                          !.result = IF c.res.kind = "Ok"
                                     THEN Ok(whole_file(eon_source, ret.val))
                                     ELSE c.res]
            /\ UNCHANGED <<tokens, stack>>
       ELSE IF ret.kind = "Err"
       THEN /\ top' = [top EXCEPT !.pc = "list", !.tokens_a = tokens, !.err_a = Some(ret.err)]
            /\ tokens' = NewPeekableIter
            /\ stack' = <<ListFrame(0)>>
       ELSE /\ top' = [top EXCEPT !.pc = "done", !.tokens_a = tokens, !.result = ret]
            /\ UNCHANGED <<tokens, stack>>
    /\ ret' = NoResult
    /\ UNCHANGED <<string_vars, number_vars, value_vars, map_vars, input, options, calls, eon_source, lexer, deepest>>

\* The mutant: a file of one value comes back as a list of one element.
top_value_always_list(s, list) == Ok(whole_file(s, list))

\* parse_top_str, the arm Ok(list): what it returns for the list of the file
top_value(s, list) ==
    IF Len(list.values) = 1
    THEN Ok(list.values[1])
    ELSE Ok(whole_file(s, list))

\* further_error, were the error of the list attempt returned on a tie too.
further_error_or_as_far(tokens_a, err_a, tokens_b, err_b) ==
    IF span_of_previous(tokens_a).end <= span_of_previous(tokens_b).end
    THEN Err(err_b)
    ELSE Err(err_a)

\* parse_top_str, the arm Err(err_b): the error of the attempt that got further
further_error(tokens_a, err_a, tokens_b, err_b) ==
    IF span_of_previous(tokens_a).end < span_of_previous(tokens_b).end
    THEN Err(err_b)
    ELSE Err(err_a)

\* fn parse_top_str: parse_list_contents(&mut tokens_b, 0) returned
top_list ==
    /\ top.pc = "list" /\ stack = <<>>
    /\ IF ret.kind = "Ok"
       THEN LET c == check_for_trailing_tokens(eon_source, tokens) IN
            top' = [top EXCEPT !.pc = "done", !.tokens_b = Some(c.tokens),
                       !.list = Some(ret.val), !.trailing = c.res,
                       !.result = IF c.res.kind = "Ok" THEN top_value(eon_source, ret.val)
                                  ELSE c.res]
       ELSE IF ret.kind = "Err"
       THEN top' = [top EXCEPT !.pc = "done", !.tokens_b = Some(tokens),
                       !.err_b = Some(ret.err),
                       !.result = further_error(top.tokens_a, top.err_a[1], tokens, ret.err)]
       ELSE top' = [top EXCEPT !.pc = "done", !.tokens_b = Some(tokens), !.result = ret]
    /\ ret' = NoResult
    /\ UNCHANGED <<string_vars, number_vars, value_vars, map_vars, input, options, calls, eon_source, lexer, tokens, stack, deepest>>

\* pub fn reformat: parse_str returned; .map(|value| value.format(options))
reformat ==
    /\ top.pc = "done"
    /\ calls' = Append(calls,
                       [source |-> eon_source, deepest |-> deepest, top |-> top,
                        formatter |-> IF top.result.kind = "Ok"
                                      THEN Some(format(top.result.val, options))
                                      ELSE None])
    /\ top' = IdleTop
    /\ UNCHANGED <<string_vars, number_vars, value_vars, map_vars, input, options, eon_source, lexer, tokens, stack, ret, deepest>>

(***************************************************************************)
(* Strings (strings.rs).  A char is a string of one character; the control *)
(* characters that have no such string go by their names: "NUL" is U+0000, *)
(* "SOH" U+0001, "BEL" U+0007, "BS" U+0008, "VT" U+000B, "ESC" U+001B,     *)
(* "DEL" U+007F, and so does the grave accent, U+0060: "GRAVE".  A str is  *)
(* a sequence of chars.                                                    *)
(***************************************************************************)
\* The code points of the chars the strings are made of.
CodePoint ==
    [c \in {"NUL", "SOH", "BEL", "BS", "\t", "\n", "VT", "\f", "\r", "ESC", " ", "\"", "$",
            "'", "/", "0", "1", "7", "E", "a", "b", "f", "n", "u", "\\", "GRAVE", "{", "}",
            "DEL"} |->
        CASE c = "NUL" -> 0 [] c = "SOH" -> 1 [] c = "BEL" -> 7 [] c = "BS" -> 8
          [] c = "\t" -> 9 [] c = "\n" -> 10 [] c = "VT" -> 11 [] c = "\f" -> 12
          [] c = "\r" -> 13 [] c = "ESC" -> 27 [] c = " " -> 32 [] c = "\"" -> 34
          [] c = "$" -> 36 [] c = "'" -> 39 [] c = "/" -> 47 [] c = "0" -> 48
          [] c = "1" -> 49 [] c = "7" -> 55 [] c = "E" -> 69 [] c = "a" -> 97
          [] c = "b" -> 98 [] c = "f" -> 102 [] c = "n" -> 110 [] c = "u" -> 117
          [] c = "\\" -> 92 [] c = "GRAVE" -> 96 [] c = "{" -> 123 [] c = "}" -> 125
          [] c = "DEL" -> 127]

\* char::is_control: the category Cc
is_control(c) == c \in DOMAIN CodePoint /\ (CodePoint[c] < 32 \/ CodePoint[c] = 127)

\* char::is_whitespace, of the chars above
UnicodeWhiteSpace == {" ", "\t", "\n", "VT", "\f", "\r"}
is_whitespace(c) == c \in UnicodeWhiteSpace

\* char::to_digit(16)
HexDigits ==
    [c \in {"0", "1", "2", "3", "4", "5", "6", "7", "8", "9"} |->
        CASE c = "0" -> 0 [] c = "1" -> 1 [] c = "2" -> 2 [] c = "3" -> 3 [] c = "4" -> 4
          [] c = "5" -> 5 [] c = "6" -> 6 [] c = "7" -> 7 [] c = "8" -> 8 [] c = "9" -> 9]
    @@ [c \in {"a", "b", "c", "d", "e", "f"} |->
        CASE c = "a" -> 10 [] c = "b" -> 11 [] c = "c" -> 12 [] c = "d" -> 13
          [] c = "e" -> 14 [] c = "f" -> 15]
    @@ [c \in {"A", "B", "C", "D", "E", "F"} |->
        CASE c = "A" -> 10 [] c = "B" -> 11 [] c = "C" -> 12 [] c = "D" -> 13
          [] c = "E" -> 14 [] c = "F" -> 15]

\* The digits of {:x}.
LowerHex == <<"0", "1", "2", "3", "4", "5", "6", "7", "8", "9", "a", "b", "c", "d", "e", "f">>

RECURSIVE Hex(_)
\* format!("{n:x}")
Hex(n) == IF n < 16 THEN <<LowerHex[n + 1]>> ELSE Hex(n \div 16) \o <<LowerHex[(n % 16) + 1]>>

\* char::from_u32: None for a surrogate and beyond U+10FFFF; a code point without a
\* char above stands for its own char.
from_u32(number) ==
    IF number > 1114111 \/ (number >= 55296 /\ number <= 57343) THEN None
    ELSE IF \E c \in DOMAIN CodePoint : CodePoint[c] = number
    THEN Some(CHOOSE c \in DOMAIN CodePoint : CodePoint[c] = number)
    ELSE Some(number)


\* str::chars().any(..)
AnyChar(s, P(_)) == \E i \in 1..Len(s) : P(s[i])

\* impl Debug for str, one char: char::escape_debug_ext, single quotes not escaped
escape_debug(c) ==
    CASE c = "NUL" -> <<"\\", "0">>
      [] c = "\t" -> <<"\\", "t">>
      [] c = "\r" -> <<"\\", "r">>
      [] c = "\n" -> <<"\\", "n">>
      [] c = "\\" -> <<"\\", "\\">>
      [] c = "\"" -> <<"\\", "\"">>
      [] OTHER -> IF is_control(c)
                  THEN <<"\\", "u", "{">> \o Hex(CodePoint[c]) \o <<"}">>
                  ELSE <<c>>

\* fn doubel_quote: format!("{raw:?}")
doubel_quote(s) ==
    <<"\"">> \o Concat([i \in 1..Len(s) |-> escape_debug(s[i])]) \o <<"\"">>

must_be_double_quoted(c) == is_control(c) \/ c \in {"'", "\n", "\r", "\t"}
would_be_shorter_if_literal(c) == is_control(c) \/ c \in {"\"", "\\"}

\* pub fn escape_and_quote
escape_and_quote(s) ==
    IF AnyChar(s, must_be_double_quoted) THEN doubel_quote(s)
    ELSE IF AnyChar(s, would_be_shorter_if_literal) THEN <<"'">> \o s \o <<"'">>
    ELSE doubel_quote(s)

\* str::strip_prefix / str::strip_suffix: None, or Some of the rest
strip_prefix(s, prefix) ==
    IF Len(s) >= Len(prefix) /\ SubSeq(s, 1, Len(prefix)) = prefix
    THEN Some(SubSeq(s, Len(prefix) + 1, Len(s)))
    ELSE None
strip_suffix(s, suffix) ==
    IF Len(s) >= Len(suffix) /\ SubSeq(s, Len(s) - Len(suffix) + 1, Len(s)) = suffix
    THEN Some(SubSeq(s, 1, Len(s) - Len(suffix)))
    ELSE None

\* A u32 is kept as its two halves of 16 bits, hi * 2^16 + lo.
U32(hi, lo) == [hi |-> hi, lo |-> lo]

\* `number * 16 + digit` in u32: None when the result does not fit
times_16_plus(number, digit) ==
    LET lo == number.lo * 16 + digit
        hi == number.hi * 16 + lo \div 65536
    IN IF hi >= 65536 THEN None ELSE Some(U32(hi, lo % 65536))

\* char::from_u32 of a u32
char_from_u32(number) ==
    IF number.hi > 16 THEN None ELSE from_u32(number.hi * 65536 + number.lo)

RECURSIVE unicode_digits(_, _, _, _)
\* fn parse_braces_with_unicode, its loop from the i-th char of s on: the char and
\* the index of the char after the closing brace.  An overflow of `number` is a
\* panic (a debug build; a release build wraps).
unicode_digits(s, i, num_chars, number) ==
    IF i > Len(s) THEN Err(<<"Unicode escape sequence must end with a closing brace '}'">>)
    ELSE IF s[i] = "}"
    THEN IF char_from_u32(number) = None THEN Err(<<"Invalid Unicode code point: ", number>>)
         ELSE Ok([chr |-> char_from_u32(number)[1], next |-> i + 1])
    ELSE IF s[i] \in DOMAIN HexDigits
    THEN IF num_chars >= 8
         THEN Err(<<"Unicode escape sequence is too long: ", number,
                    " (max 8 hex digits allowed)">>)
         ELSE IF times_16_plus(number, HexDigits[s[i]]) = None
         THEN Panic("attempt to multiply with overflow")
         ELSE unicode_digits(s, i + 1, num_chars + 1, times_16_plus(number, HexDigits[s[i]])[1])
    ELSE IF s[i] = "_" THEN unicode_digits(s, i + 1, num_chars, number)
    ELSE Err(<<"Invalid character in Unicode escape sequence: ", s[i]>>)

\* fn parse_braces_with_unicode
parse_braces_with_unicode(s, i) ==
    IF i > Len(s) \/ s[i] # "{"
    THEN Err(<<"\\u must be followed by an opening brace, e.g. \\u{1F600}">>)
    ELSE unicode_digits(s, i + 1, 0, U32(0, 0))

\* fn unescape, the match on the char after a backslash: the char it pushes
Escapes ==
    [c \in {" ", "\"", "/", "'", "\\", "GRAVE", "$", "a", "b", "e", "E", "f", "n", "r", "t",
            "v"} |->
        CASE c = "a" -> "BEL" [] c = "b" -> "BS" [] c \in {"e", "E"} -> "ESC"
          [] c = "f" -> "\f" [] c = "n" -> "\n" [] c = "r" -> "\r" [] c = "t" -> "\t"
          [] c = "v" -> "VT" [] OTHER -> c]

RECURSIVE unescape_loop(_, _, _)
\* fn unescape, the arm 'u': the char of parse_braces_with_unicode is pushed, its
\* error returned
push_unicode(s, u, output) ==
    IF u.kind # "Ok" THEN u
    ELSE unescape_loop(s, u.val.next, Append(output, u.val.chr))

\* fn unescape: the loop from the i-th char of s on
unescape_loop(s, i, output) ==
    IF i > Len(s) THEN Ok(output)
    ELSE IF s[i] # "\\" THEN unescape_loop(s, i + 1, Append(output, s[i]))
    ELSE IF i + 1 > Len(s) THEN Err(<<"String ended with a backslash">>)
    ELSE IF s[i + 1] \in DOMAIN Escapes
    THEN unescape_loop(s, i + 2, Append(output, Escapes[s[i + 1]]))
    ELSE IF s[i + 1] = "\n"
    THEN unescape_loop(s, ScanIn(s, i + 1, UnicodeWhiteSpace) + 1, output)
    ELSE IF s[i + 1] = "u" THEN push_unicode(s, parse_braces_with_unicode(s, i + 2), output)
    ELSE Err(<<"Unknown escape sequence: \\", s[i + 1]>>)

\* fn unescape
unescape(s) == unescape_loop(s, 1, <<>>)

TripleSingle == <<"'", "'", "'">>
TripleDouble == <<"\"", "\"", "\"">>

\* fn unescape_and_unquote, the four kinds of string and what is none of them
multiline_literal(contents) ==
    IF contents = None
    THEN Err(<<"Triple-quoted multiline literal string must end with three single quotes">>)
    ELSE IF strip_prefix(contents[1], <<"\n">>) # None
    THEN Ok(strip_prefix(contents[1], <<"\n">>)[1])
    ELSE Ok(contents[1])

single_quoted(contents) ==
    IF contents = None
    THEN Err(<<"Single-quoted literal string must end with three single quotes">>)
    ELSE IF Contains(contents[1], "\n")
    THEN Err(<<"Single-quoted literal string may contain newlines">>)
    ELSE Ok(contents[1])

multiline_basic(contents) ==
    IF contents = None THEN Err(<<"Missing ending of multiline double-quoted string">>)
    ELSE unescape(contents[1])

double_quoted(contents) ==
    IF contents = None THEN Err(<<"Double-quoted string must end with a double quote">>)
    ELSE IF Contains(contents[1], "\n")
    THEN Err(<<"Double-quoted string may contain newlines">>)
    ELSE unescape(contents[1])

\* fn unescape_and_unquote of a string without '\r'
unquote_kinds(escaped) ==
    IF strip_prefix(escaped, TripleSingle) # None
    THEN multiline_literal(strip_suffix(strip_prefix(escaped, TripleSingle)[1], TripleSingle))
    ELSE IF strip_prefix(escaped, <<"'">>) # None
    THEN single_quoted(strip_suffix(strip_prefix(escaped, <<"'">>)[1], <<"'">>))
    ELSE IF strip_prefix(escaped, TripleDouble) # None
    THEN multiline_basic(strip_suffix(strip_prefix(escaped, TripleDouble)[1], TripleDouble))
    ELSE IF strip_prefix(escaped, <<"\"">>) # None
    THEN double_quoted(strip_suffix(strip_prefix(escaped, <<"\"">>)[1], <<"\"">>))
    ELSE Err(<<"String must start with a quote (single or double)">>)

\* pub fn unescape_and_unquote: every '\r' is stripped first
unescape_and_unquote(escaped) ==
    unquote_kinds(SelectSeq(escaped, LAMBDA c : c # "\r"))

(***************************************************************************)
(* Numbers (number.rs).  The integers of the checker have 32 bits, so the  *)
(* widths are scaled down, in the order they have in Rust: the mantissa of *)
(* an f32 is shorter than that of an f64, which is shorter than an i64,    *)
(* which is shorter than an i128; an f32 ends between i128::MAX and        *)
(* u128::MAX, an f64 far beyond.                                           *)
(***************************************************************************)
\* The bits of i64 and u64 (64 in Rust), of i128 and u128 (128).
Bits64 == 8
Bits128 == 16

\* f32::MANTISSA_DIGITS (24), f64::MANTISSA_DIGITS (53)
MantissaF32 == 3
MantissaF64 == 6

\* f32::MAX_EXP (128, the bits of u128), f64::MAX_EXP (1024)
MaxExpF32 == Bits128
MaxExpF64 == Bits128 + 4

I64_MIN == -(2 ^ (Bits64 - 1))
I64_MAX == 2 ^ (Bits64 - 1) - 1
U64_MAX == 2 ^ Bits64 - 1
I128_MIN == -(2 ^ (Bits128 - 1))
I128_MAX == 2 ^ (Bits128 - 1) - 1
U128_MAX == 2 ^ Bits128 - 1

Abs(i) == IF i < 0 THEN -i ELSE i
Clamp(i, lo, hi) == IF i < lo THEN lo ELSE IF i > hi THEN hi ELSE i

(***************************************************************************)
(* A float is NaN, an infinity or finite; a finite one is its sign and its *)
(* magnitude in quarters, the least step of the scaled formats.  A format  *)
(* is its mantissa digits and its MAX_EXP.                                 *)
(***************************************************************************)
NaN == [class |-> "nan", neg |-> FALSE, mag |-> 0]
Infinity(neg) == [class |-> "inf", neg |-> neg, mag |-> 0]
Finite(neg, mag) == [class |-> "fin", neg |-> neg, mag |-> mag]

F32Format == [digits |-> MantissaF32, max_exp |-> MaxExpF32]
F64Format == [digits |-> MantissaF64, max_exp |-> MaxExpF64]

RECURSIVE BitLen(_)
\* The number of bits of n >= 0.
BitLen(n) == IF n = 0 THEN 0 ELSE 1 + BitLen(n \div 2)

\* f32::MAX / f64::MAX, in quarters
MaxFinite(fmt) == (2 ^ fmt.digits - 1) * 2 ^ (fmt.max_exp - fmt.digits) * 4

\* m16 is a magnitude in sixteenths, the last two bits are guard and sticky: rounded
\* to `unit` sixteenths, ties to even.
RoundTo(m16, unit) ==
    LET low == m16 % unit
        base == m16 - low
    IN  IF 2 * low > unit \/ (2 * low = unit /\ (base \div unit) % 2 = 1)
        THEN base + unit
        ELSE base

\* The float of the format nearest to the magnitude m16 (sixteenths), ties to even;
\* the infinity beyond the largest finite float.
Rounded(neg, m16, fmt) ==
    LET mag == RoundTo(m16, 2 ^ Max(BitLen(m16) - fmt.digits, 2)) \div 4 IN
    IF mag > MaxFinite(fmt) THEN Infinity(neg) ELSE Finite(neg, mag)

\* `i as f32`, `i as f64`
int_as_float(i, fmt) == Rounded(i < 0, 16 * Abs(i), fmt)

\* f32::round / f64::round: half away from zero
round(f) == IF f.class = "fin" THEN Finite(f.neg, ((f.mag + 2) \div 4) * 4) ELSE f

\* `f as i64`, `f as i128`, `f as u128`: toward zero, saturating, NaN is 0
float_as_int(f, lo, hi) ==
    CASE f.class = "nan" -> 0
      [] f.class = "inf" -> IF f.neg THEN lo ELSE hi
      [] OTHER -> Clamp(IF f.neg THEN -(f.mag \div 4) ELSE f.mag \div 4, lo, hi)

\* == of two floats: NaN equals nothing, -0.0 equals 0.0
float_eq(a, b) ==
    /\ a.class # "nan" /\ b.class # "nan"
    /\ a.class = b.class
    /\ a.mag = b.mag
    /\ a.neg = b.neg \/ (a.class = "fin" /\ a.mag = 0)

\* unary minus of a float
float_neg(f) == IF f.class = "nan" THEN f ELSE [f EXCEPT !.neg = ~@]

(***************************************************************************)
(* enum NumberImpl and the accessors of Number.                            *)
(***************************************************************************)
I128(n) == [tag |-> "I128", n |-> n]
U128(n) == [tag |-> "U128", n |-> n]
F32(f) == [tag |-> "F32", f |-> f]
F64(f) == [tag |-> "F64", f |-> f]

\* i64::try_from(n).ok() and the like
try_from(n, lo, hi) == IF lo <= n /\ n <= hi THEN Some(n) ELSE None

\* if n == i as f32 { Some(i) } else { None }
if_same(f, i, fmt) == IF float_eq(f, int_as_float(i, fmt)) THEN Some(i) ELSE None

\* let i = n.round() as ..; if n == i as f32 { Some(i) } else { None }
rounded_if_same(f, fmt, lo, hi) == if_same(f, float_as_int(round(f), lo, hi), fmt)

\* Number::as_i64
as_i64(num) ==
    CASE num.tag \in {"I128", "U128"} -> try_from(num.n, I64_MIN, I64_MAX)
      [] num.tag = "F32" -> rounded_if_same(num.f, F32Format, I64_MIN, I64_MAX)
      [] num.tag = "F64" -> rounded_if_same(num.f, F64Format, I64_MIN, I64_MAX)

\* Number::as_u64
as_u64(num) ==
    CASE num.tag \in {"I128", "U128"} -> try_from(num.n, 0, U64_MAX)
      [] num.tag = "F32" -> rounded_if_same(num.f, F32Format, 0, U64_MAX)
      [] num.tag = "F64" -> rounded_if_same(num.f, F64Format, 0, U64_MAX)

\* Number::as_i128
as_i128(num) ==
    CASE num.tag = "I128" -> Some(num.n)
      [] num.tag = "U128" -> try_from(num.n, I128_MIN, I128_MAX)
      [] num.tag = "F32" -> rounded_if_same(num.f, F32Format, I128_MIN, I128_MAX)
      [] num.tag = "F64" -> rounded_if_same(num.f, F64Format, I128_MIN, I128_MAX)

\* Number::as_u128
as_u128(num) ==
    CASE num.tag = "I128" -> try_from(num.n, 0, U128_MAX)
      [] num.tag = "U128" -> Some(num.n)
      [] num.tag = "F32" -> rounded_if_same(num.f, F32Format, 0, U128_MAX)
      [] num.tag = "F64" -> rounded_if_same(num.f, F64Format, 0, U128_MAX)

\* Number::as_f64
as_f64(num) ==
    CASE num.tag = "I128" ->
            IF float_as_int(int_as_float(num.n, F32Format), I128_MIN, I128_MAX) = num.n
            THEN Some(int_as_float(num.n, F64Format))
            ELSE None
      [] num.tag = "U128" ->
            IF float_as_int(int_as_float(num.n, F32Format), 0, U128_MAX) = num.n
            THEN Some(int_as_float(num.n, F64Format))
            ELSE None
      [] num.tag \in {"F32", "F64"} -> Some(num.f)

\* The mutant: Numbers of different kinds are never equal.
eq_same_kind(a, b) ==
    CASE a.tag \in {"I128", "U128"} /\ b.tag \in {"I128", "U128"} -> a.n = b.n
      [] a.tag \in {"F32", "F64"} /\ b.tag \in {"F32", "F64"} ->
            (a.f.class = "nan" /\ b.f.class = "nan") \/ float_eq(a.f, b.f)
      [] OTHER -> FALSE

\* impl PartialEq for Number
eq(a, b) ==
    IF as_i128(a) # None /\ as_i128(b) # None THEN as_i128(a)[1] = as_i128(b)[1]
    ELSE IF as_u128(a) # None /\ as_u128(b) # None THEN as_u128(a)[1] = as_u128(b)[1]
    ELSE IF as_f64(a) # None /\ as_f64(b) # None
    THEN \/ as_f64(a)[1].class = "nan" /\ as_f64(b)[1].class = "nan"
         \/ float_eq(as_f64(a)[1], as_f64(b)[1])
    ELSE FALSE

\* impl Hash for Number: what is fed to the Hasher, as <<width in bits, value>>. An
\* i128 is fed as the 128 bits of its two's complement, a u128 as its 128 bits, a
\* u64 as its 64 bits; a float's to_bits is told apart by the float itself.
hash(num) ==
    IF as_i128(num) # None THEN <<Bits128, as_i128(num)[1] % (2 ^ Bits128)>>
    ELSE IF as_u128(num) # None THEN <<Bits128, as_u128(num)[1]>>
    ELSE IF as_f64(num) # None
    THEN LET n == as_f64(num)[1] IN
         IF n.class = "fin" /\ n.mag = 0 THEN <<Bits64, 0>>
         ELSE IF n.class = "nan" THEN <<Bits64, 1>>
         ELSE IF n = Infinity(TRUE) THEN <<Bits64, 2>>
         ELSE IF n = Infinity(FALSE) THEN <<Bits64, 3>>
         ELSE <<Bits64, n>>
    ELSE <<>>

\* Number::try_negate
try_negate(num) ==
    CASE num.tag = "I128" -> IF num.n = I128_MIN THEN None ELSE Some(I128(-num.n))
      [] num.tag = "U128" -> IF num.n <= I128_MAX THEN Some(I128(-num.n)) ELSE None
      [] num.tag = "F32" -> Some(F32(float_neg(num.f)))
      [] num.tag = "F64" -> Some(F64(float_neg(num.f)))

\* impl From<i64> for Number
from_i64(value) == I128(value)

RECURSIVE Decimal(_)
\* The decimal digits of n >= 0.
Decimal(n) ==
    IF n < 10 THEN <<LowerHex[n + 1]>> ELSE Decimal(n \div 10) \o <<LowerHex[(n % 10) + 1]>>

\* impl Display for i64: v.to_string()
to_string(v) == IF v < 0 THEN <<"-">> \o Decimal(-v) ELSE Decimal(v)

(***************************************************************************)
(* impl FromStr for Number.                                                *)
(***************************************************************************)
UpperCase ==
    <<"A", "B", "C", "D", "E", "F", "G", "H", "I", "J", "K", "L", "M", "N", "O", "P", "Q",
      "R", "S", "T", "U", "V", "W", "X", "Y", "Z">>
LowerCase ==
    <<"a", "b", "c", "d", "e", "f", "g", "h", "i", "j", "k", "l", "m", "n", "o", "p", "q",
      "r", "s", "t", "u", "v", "w", "x", "y", "z">>

\* str::to_lowercase
to_lowercase(s) ==
    [i \in 1..Len(s) |->
        IF \E k \in 1..26 : UpperCase[k] = s[i]
        THEN LowerCase[CHOOSE k \in 1..26 : UpperCase[k] = s[i]]
        ELSE s[i]]

RECURSIVE digits_loop(_, _, _, _, _)
\* The value of the digits of s from the i-th on in the radix; None for a char
\* that is no digit of the radix and for a value above max.
digits_loop(s, i, radix, acc, max) ==
    IF i > Len(s) THEN Some(acc)
    ELSE IF s[i] \notin DOMAIN HexDigits THEN None
    ELSE IF HexDigits[s[i]] >= radix THEN None
    ELSE IF acc * radix + HexDigits[s[i]] > max THEN None
    ELSE digits_loop(s, i + 1, radix, acc * radix + HexDigits[s[i]], max)

\* u128::from_str_radix after its optional '+': no digits is an error
unsigned_digits(digits, radix, max) ==
    IF digits = <<>> THEN None ELSE digits_loop(digits, 1, radix, 0, max)

\* u128::from_str_radix, and str::parse::<u128> with the radix 10
from_str_radix(s, radix, max) ==
    unsigned_digits(IF s # <<>> /\ s[1] = "+" THEN Tail(s) ELSE s, radix, max)

\* The mantissas of str::parse::<f64> stop here: every integer from here on rounds
\* to the infinity.
MantissaCap == 2 ^ (MaxExpF64 + 1)

RECURSIVE mantissa(_, _, _, _)
\* The decimal digits of s between the offsets i and j, a '.' among them skipped
mantissa(s, i, j, acc) ==
    IF i >= j THEN acc
    ELSE IF s[i + 1] = "." THEN mantissa(s, i + 1, j, acc)
    ELSE mantissa(s, i + 1, j, Min(acc * 10 + HexDigits[s[i + 1]], MantissaCap))

RECURSIVE times_ten(_, _, _)
\* m * 10^e for e >= 0; the multiplications stop above `cap`
times_ten(m, e, cap) == IF e = 0 \/ m > cap THEN m ELSE times_ten(m * 10, e - 1, cap)

\* 16 * m / d in sixteenths, the last bit set when the division leaves a rest
sixteenths(m, d) ==
    IF (16 * m) % d # 0 /\ ((16 * m) \div d) % 2 = 0
    THEN (16 * m) \div d + 1
    ELSE (16 * m) \div d

\* The f64 nearest to m * 10^e
decimal_to_float(neg, m, e) ==
    IF m = 0 THEN Finite(neg, 0)
    ELSE IF e >= 0 THEN Rounded(neg, 16 * times_ten(m, e, MantissaCap), F64Format)
    ELSE Rounded(neg, sixteenths(m, times_ten(1, -e, 16 * m)), F64Format)

\* str::parse::<f64>, a number without its sign: digits, '.', digits, from offset 0
\* to int_end, frac_end; then the exponent from exp_start (after 'e' and its sign)
\* to the end of s, or nothing
number_to_float(s, neg, int_end, frac_end, has_exp, exp_neg, exp_start) ==
    IF frac_end - (IF frac_end > int_end THEN 1 ELSE 0) = 0 THEN None
    ELSE IF ~has_exp
    THEN IF frac_end # Len(s) THEN None
         ELSE Some(decimal_to_float(neg, mantissa(s, 0, frac_end, 0),
                                    -Max(frac_end - int_end - 1, 0)))
    ELSE IF exp_start >= Len(s) \/ ScanIn(s, exp_start, Digits) # Len(s) THEN None
    ELSE Some(decimal_to_float(
                 neg, mantissa(s, 0, frac_end, 0),
                 (IF exp_neg THEN -1 ELSE 1) * mantissa(s, exp_start, Len(s), 0)
                 - Max(frac_end - int_end - 1, 0)))

\* The offset after the fraction that starts at the offset int_end
fraction_end(s, int_end) ==
    IF int_end < Len(s) /\ s[int_end + 1] = "." THEN ScanIn(s, int_end + 1, Digits)
    ELSE int_end

\* str::parse::<f64>, a number without its sign: where its exponent starts
with_exponent(s, neg, int_end, frac_end) ==
    IF frac_end < Len(s) /\ s[frac_end + 1] \in {"e", "E"}
    THEN IF frac_end + 1 < Len(s) /\ s[frac_end + 2] \in {"+", "-"}
         THEN number_to_float(s, neg, int_end, frac_end, TRUE, s[frac_end + 2] = "-",
                              frac_end + 2)
         ELSE number_to_float(s, neg, int_end, frac_end, TRUE, FALSE, frac_end + 1)
    ELSE number_to_float(s, neg, int_end, frac_end, FALSE, FALSE, frac_end)

\* str::parse::<f64> after its sign: a number, or "nan", "inf", "infinity" in any case
unsigned_float(s, neg) ==
    IF to_lowercase(s) = <<"n", "a", "n">> THEN Some(NaN)
    ELSE IF to_lowercase(s) \in {<<"i", "n", "f">>, <<"i", "n", "f", "i", "n", "i", "t", "y">>}
    THEN Some(Infinity(neg))
    ELSE with_exponent(s, neg, ScanIn(s, 0, Digits), fraction_end(s, ScanIn(s, 0, Digits)))

\* str::parse::<f64>: None for Err(..)
parse_f64(s) ==
    IF s # <<>> /\ s[1] \in {"+", "-"} THEN unsigned_float(Tail(s), s[1] = "-")
    ELSE unsigned_float(s, FALSE)

\* fn looks_like_decimal
looks_like_decimal(s) == Contains(s, ".") \/ Contains(s, "e") \/ Contains(s, "E")

\* .map(NumberImpl::U128) / .map(NumberImpl::F64) of what a parse returned, and
\* .map_err(|_err| message)
parsed_u128(n, message) == IF n = None THEN Err(message) ELSE Ok(U128(n[1]))
parsed_f64(f, message) == IF f = None THEN Err(message) ELSE Ok(F64(f[1]))

\* Number::from_str, `let unsigned = ...`
unsigned_number(s) ==
    IF strip_prefix(s, <<"0", "b">>) # None
    THEN parsed_u128(from_str_radix(strip_prefix(s, <<"0", "b">>)[1], 2, U128_MAX),
                     "Failed to parse binary number. Expected '0b...'")
    ELSE IF strip_prefix(s, <<"0", "x">>) # None
    THEN parsed_u128(from_str_radix(strip_prefix(s, <<"0", "x">>)[1], 16, U128_MAX),
                     "Failed to parse hexadecimal number. Expected '0x...'")
    ELSE IF looks_like_decimal(s)
    THEN parsed_f64(parse_f64(s), "Failed to parse float number. Expected a valid float.")
    ELSE IF from_str_radix(s, 10, U128_MAX) # None
    THEN parsed_u128(from_str_radix(s, 10, U128_MAX), "")
    ELSE parsed_f64(parse_f64(s), "Failed to parse number")

\* Number::from_str, `if sign == -1 { .. } else { .. }`
with_sign(sign, unsigned) ==
    IF unsigned.kind = "Err" \/ sign # -1 THEN unsigned
    ELSE IF try_negate(unsigned.val) = None THEN Err("Number too small")
    ELSE Ok(try_negate(unsigned.val)[1])

\* Number::from_str after the sign is stripped
signed_number(sign, s) ==
    IF to_lowercase(s) = <<"n", "a", "n">> THEN Err("NaN must be written as '+nan'")
    ELSE with_sign(sign, unsigned_number(s))

\* Number::from_str of a string without '_'
from_str_plain(s) ==
    CASE s = <<"+", "n", "a", "n">> -> Ok(F32(NaN))
      [] s = <<"-", "i", "n", "f">> -> Ok(F32(Infinity(TRUE)))
      [] s = <<"+", "i", "n", "f">> -> Ok(F32(Infinity(FALSE)))
      [] OTHER ->
            IF s # <<>> /\ s[1] = "+" THEN signed_number(1, Tail(s))
            ELSE IF s # <<>> /\ s[1] = "-" THEN signed_number(-1, Tail(s))
            ELSE signed_number(1, s)

\* impl FromStr for Number: every '_' is stripped first
from_str(s) == from_str_plain(SelectSeq(s, LAMBDA c : c # "_"))

(***************************************************************************)
(* The callers of Number.  num_a and num_b are two Numbers, each with the  *)
(* literal it is parsed from, if any; num_r is what the caller has seen:   *)
(* what as_i64 returned for num_a, how num_b was made of it, what ==       *)
(* returned for the two.                                                   *)
(***************************************************************************)
NoNumber == [text |-> None, number |-> None]
Literal(s) == [text |-> Some(s), number |-> None]
Built(n) == [text |-> None, number |-> Some(Ok(n))]
NothingSeen == [as_i64 |-> None, made |-> "given", eq |-> None, negated |-> None]

IsNumber(slot) == slot.number # None /\ slot.number[1].kind = "Ok"

\* num_a = text.parse::<Number>()
parse_a ==
    /\ num_a.text # None /\ num_a.number = None
    /\ num_a' = [num_a EXCEPT !.number = Some(from_str(num_a.text[1]))]
    /\ UNCHANGED <<num_b, num_r, string_vars, value_vars, map_vars, parse_vars>>

\* num_b = text.parse::<Number>()
parse_b ==
    /\ num_b.text # None /\ num_b.number = None
    /\ num_b' = [num_b EXCEPT !.number = Some(from_str(num_b.text[1]))]
    /\ UNCHANGED <<num_a, num_r, string_vars, value_vars, map_vars, parse_vars>>

\* num_a.as_i64()
narrow ==
    /\ IsNumber(num_a) /\ num_r.as_i64 = None
    /\ num_r' = [num_r EXCEPT !.as_i64 = Some(as_i64(num_a.number[1].val))]
    /\ UNCHANGED <<num_a, num_b, string_vars, value_vars, map_vars, parse_vars>>

\* num_a.try_negate()
negate ==
    /\ IsNumber(num_a) /\ num_b = NoNumber /\ num_r = NothingSeen
    /\ num_r' = [num_r EXCEPT !.negated = Some(try_negate(num_a.number[1].val))]
    /\ UNCHANGED <<num_a, num_b, string_vars, value_vars, map_vars, parse_vars>>

\* num_b = Number::from(v), for the v of Some(v) = num_a.as_i64()
from_v ==
    /\ num_r.as_i64 # None /\ num_r.as_i64[1] # None
    /\ num_b = NoNumber
    /\ num_b' = Built(from_i64(num_r.as_i64[1][1]))
    /\ num_r' = [num_r EXCEPT !.made = "from"]
    /\ UNCHANGED <<num_a, string_vars, value_vars, map_vars, parse_vars>>

\* v.to_string(), to be parsed as num_b, for the v of Some(v) = num_a.as_i64()
print_v ==
    /\ num_r.as_i64 # None /\ num_r.as_i64[1] # None
    /\ num_b = NoNumber
    /\ num_b' = Literal(to_string(num_r.as_i64[1][1]))
    /\ num_r' = [num_r EXCEPT !.made = "to_string"]
    /\ UNCHANGED <<num_a, string_vars, value_vars, map_vars, parse_vars>>

\* num_a == num_b
compare ==
    /\ IsNumber(num_a) /\ IsNumber(num_b) /\ num_r.eq = None
    /\ num_r' = [num_r EXCEPT !.eq = Some(eq(num_a.number[1].val, num_b.number[1].val))]
    /\ UNCHANGED <<num_a, num_b, string_vars, value_vars, map_vars, parse_vars>>

\* A caller quotes the string `raw`: escape_and_quote(raw)
quote ==
    /\ raw # None /\ quoted = None
    /\ quoted' = Some(escape_and_quote(raw[1]))
    /\ UNCHANGED <<raw, unquoted, number_vars, value_vars, map_vars, parse_vars>>

\* A caller unquotes the string `quoted`: unescape_and_unquote(quoted)
unquote ==
    /\ quoted # None /\ unquoted = None
    /\ unquoted' = Some(unescape_and_unquote(quoted[1]))
    /\ UNCHANGED <<raw, quoted, number_vars, value_vars, map_vars, parse_vars>>

(***************************************************************************)
(* Values (crates/eon/src/value).  A Map is the sequence of its entries in *)
(* insertion order; a Variant always holds at least one value.             *)
(***************************************************************************)
Null == [tag |-> "Null"]
Bool(b) == [tag |-> "Bool", bool |-> b]
NumberValue(number) == [tag |-> "Number", number |-> number]
String(string) == [tag |-> "String", string |-> string]
List(values) == [tag |-> "List", values |-> values]
Map(entries) == [tag |-> "Map", entries |-> entries]
Variant(name, values) == [tag |-> "Variant", name |-> name, values |-> values]

\* Value::new_variant
new_variant(name, values) == IF values # <<>> THEN Variant(name, values) ELSE String(name)

\* impl PartialEq for Value (derived), with Number's and Map's own equality: two maps
\* are equal when they hold the same entries, in any order.
RECURSIVE value_eq(_, _)
value_eq(a, b) ==
    /\ a.tag = b.tag
    /\ CASE a.tag = "Null" -> TRUE
         [] a.tag = "Bool" -> a.bool = b.bool
         [] a.tag = "Number" -> eq(a.number, b.number)
         [] a.tag = "String" -> a.string = b.string
         [] a.tag = "List" ->
                /\ Len(a.values) = Len(b.values)
                /\ \A i \in 1..Len(a.values) : value_eq(a.values[i], b.values[i])
         [] a.tag = "Map" ->
                /\ Len(a.entries) = Len(b.entries)
                /\ \A i \in 1..Len(a.entries) : \E j \in 1..Len(b.entries) :
                       /\ value_eq(a.entries[i].key, b.entries[j].key)
                       /\ value_eq(a.entries[i].value, b.entries[j].value)
         [] a.tag = "Variant" ->
                /\ a.name = b.name
                /\ Len(a.values) = Len(b.values)
                /\ \A i \in 1..Len(a.values) : value_eq(a.values[i], b.values[i])

\* Map::insert(key, value).is_some(): the map already holds the key
holds_key(entries, key) == \E i \in 1..Len(entries) : value_eq(entries[i].key, key)

\* fn is_keyword
is_keyword(string) == string \in {<<"t","r","u","e">>, <<"f","a","l","s","e">>, <<"n","u","l","l">>}

\* pub fn is_valid_identifier
is_valid_identifier(string) ==
    /\ ~is_keyword(string)
    /\ string # <<>>
    /\ string[1] \in IdentStart
    /\ \A i \in 2..Len(string) : string[i] \in IdentStart \cup Digits

\* pub fn key_needs_quotes
key_needs_quotes(string) == ~is_valid_identifier(string)

\* ryu::Buffer::format of a finite float: the shortest decimal that reads back as it
ryu_format(f) ==
    (IF f.neg THEN <<"-">> ELSE <<>>) \o Decimal(f.mag \div 4) \o <<".">>
        \o CASE f.mag % 4 = 0 -> <<"0">>
             [] f.mag % 4 = 1 -> <<"2", "5">>
             [] f.mag % 4 = 2 -> <<"5">>
             [] f.mag % 4 = 3 -> <<"7", "5">>

\* fn format_f32 / fn format_f64
format_float(f) ==
    IF f.class = "fin" /\ f.mag = 0 /\ f.neg THEN <<"-", "0", ".", "0">>
    ELSE IF f.class = "nan" THEN <<"+", "n", "a", "n">>
    ELSE IF f.class = "inf" /\ f.neg THEN <<"-", "i", "n", "f">>
    ELSE IF f.class = "inf" THEN <<"+", "i", "n", "f">>
    ELSE ryu_format(f)

\* impl Display for Number
number_to_string(num) == IF num.tag \in {"I128", "U128"} THEN to_string(num.n) ELSE format_float(num.f)

\* impl From<TokenValue> for TokenTree
tree_of(val) == TokenTree(None, <<>>, val, None)

\* impl From<Value> for TokenValue
RECURSIVE token_value_from(_)
token_value_from(value) ==
    CASE value.tag = "Null" -> Atom("Identifier", <<"n","u","l","l">>)
      [] value.tag = "Bool" ->
             Atom("Identifier", IF value.bool THEN <<"t","r","u","e">> ELSE <<"f","a","l","s","e">>)
      [] value.tag = "Number" -> Atom("Number", number_to_string(value.number))
      [] value.tag = "String" -> Atom("QuotedString", escape_and_quote(value.string))
      [] value.tag = "List" ->
             TokenList([i \in 1..Len(value.values) |-> tree_of(token_value_from(value.values[i]))],
                       <<>>)
      [] value.tag = "Map" ->
             LET all_keys_are_identifiers ==
                     \A i \in 1..Len(value.entries) :
                         /\ value.entries[i].key.tag = "String"
                         /\ ~key_needs_quotes(value.entries[i].key.string)
                 key_of(key) == IF all_keys_are_identifiers
                                THEN tree_of(Atom("Identifier", key.string))
                                ELSE tree_of(token_value_from(key))
             IN TokenMap([i \in 1..Len(value.entries) |->
                              [key |-> key_of(value.entries[i].key),
                               value |-> tree_of(token_value_from(value.entries[i].value))]],
                         <<>>)
      [] value.tag = "Variant" ->
             TokenVariant(None, escape_and_quote(value.name),
                          [i \in 1..Len(value.values) |-> tree_of(token_value_from(value.values[i]))],
                          <<>>)

\* Value::format: TokenTree::from(self.clone()).format(options)
format_with(value, o) == finish(format(tree_of(token_value_from(value)), o))

\* str::to_lowercase of an identifier, and the suggestion made for it
suggestion(identifier) ==
    LET lower == to_lowercase(identifier) IN
    CASE lower = <<"i","n","f">> -> Some("+inf or -inf")
      [] lower = <<"n","a","n">> -> Some("+nan")
      [] lower = <<"f","a","l","s","e">> -> Some("false")
      [] lower = <<"t","r","u","e">> -> Some("true")
      [] lower \in {<<"n","i","l">>, <<"n","u","l","l">>, <<"n","o","n","e">>} -> Some("null")
      [] OTHER -> None

\* Result::map / Result::map_err, with the message the closure builds
mapped(res, wrap(_), message) == IF res.kind = "Ok" THEN Ok(wrap(res.val)) ELSE Err(message)

\* Value::try_from_tree_value, with Iterator::collect::<Result<_>>() over the values
\* of a list or variant, and the loop over the entries of a map.
RECURSIVE try_from_tree_value(_)
RECURSIVE collect_values(_, _, _)
RECURSIVE collect_entries(_, _, _)

collect_values(values, i, acc) ==
    IF i > Len(values) THEN Ok(acc)
    ELSE LET res == try_from_tree_value(values[i].value) IN
         IF res.kind = "Ok" THEN collect_values(values, i + 1, Append(acc, res.val)) ELSE res

collect_entries(key_values, i, map) ==
    IF i > Len(key_values) THEN Ok(Map(map))
    ELSE LET key_tt == key_values[i].key
             key == IF key_tt.value.tag = "Identifier" THEN Ok(String(key_tt.value.slice))
                    ELSE try_from_tree_value(key_tt.value)
             value == try_from_tree_value(key_values[i].value.value)
         IN IF key.kind # "Ok" THEN key
            ELSE IF value.kind # "Ok" THEN value
            ELSE IF holds_key(map, key.val) THEN Err("Duplicate key in map")
            ELSE collect_entries(key_values, i + 1,
                                 Append(map, [key |-> key.val, value |-> value.val]))

try_from_tree_value(value) ==
    CASE value.tag = "Identifier" ->
             IF value.slice = <<"n","u","l","l">> THEN Ok(Null)
             ELSE IF value.slice = <<"t","r","u","e">> THEN Ok(Bool(TRUE))
             ELSE IF value.slice = <<"f","a","l","s","e">> THEN Ok(Bool(FALSE))
             ELSE IF suggestion(value.slice) # None THEN Err("Unknown keyword. Did you mean")
             ELSE Err("Unknown keyword. Expected 'null', 'true', or 'false'.")
      [] value.tag = "Number" ->
             mapped(from_str(value.slice), NumberValue, "Failed to parse number")
      [] value.tag = "QuotedString" ->
             mapped(unescape_and_unquote(value.slice), String, "Failed to unescape string")
      [] value.tag = "List" ->
             LET values == collect_values(value.values, 1, <<>>) IN
             IF values.kind = "Ok" THEN Ok(List(values.val)) ELSE values
      [] value.tag = "Map" -> collect_entries(value.key_values, 1, <<>>)
      [] value.tag = "Variant" ->
             LET name == unescape_and_unquote(value.quoted_name)
                 values == collect_values(value.values, 1, <<>>)
             IN IF name.kind # "Ok" THEN Err("Failed to unescape string")
                ELSE IF values.kind # "Ok" THEN values
                ELSE Ok(new_variant(name.val, values.val))

\* Value::try_from_token_tree
try_from_token_tree(tt) == try_from_tree_value(tt.value)

\* Value::format(&FormatOptions::default()) of the subject; its String is the input of
\* Value::from_str.
Value_format ==
    /\ subject # None /\ subject_text = None
    /\ LET text == format_with(subject[1], DefaultOptions) IN
       /\ subject_text' = Some(text)
       /\ input' = IF text.kind = "Ok" THEN text.val ELSE input
    /\ UNCHANGED <<subject, subject_back, options, string_vars, number_vars, map_vars>>
    /\ UNCHANGED <<calls, eon_source, lexer, top, tokens, stack, ret, deepest>>

\* Value::from_str: TokenTree::parse_str(eon_source) is entered
Value_from_str ==
    /\ subject_text # None /\ subject_text[1].kind = "Ok"
    /\ parse_top_str

\* Value::from_str: .and_then(|tt| Self::try_from_token_tree(eon_source, &tt))
Value_from_tree ==
    /\ subject_text # None /\ subject_back = None
    /\ top.pc = "done"
    /\ subject_back' = Some(IF top.result.kind = "Ok" THEN try_from_token_tree(top.result.val)
                            ELSE top.result)
    /\ UNCHANGED <<subject, subject_text, string_vars, number_vars, map_vars, parse_vars>>

(***************************************************************************)
(* Map (con, value/map.rs): an IndexMap and the running xor of the hashes  *)
(* of its keys and of its values.  A u64 has Bits64 bits here.  The        *)
(* IndexMap is the sequence of its entries in the order of insertion.      *)
(***************************************************************************)
RECURSIVE xor(_, _)
\* u64 ^ u64
xor(a, b) ==
    IF a = 0 THEN b
    ELSE IF b = 0 THEN a
    ELSE ((a + b) % 2) + 2 * xor(a \div 2, b \div 2)

\* fn hash_of: the DefaultHasher fed with the value
hash_of(value) == hasher[value]

\* Map::with_capacity
NewMap == [map |-> <<>>, hash_of_keys |-> 0, hash_of_values |-> 0]

\* IndexMap::insert: the value of a key that is there is replaced where it stands,
\* a new key goes to the end
index_insert(map, key, value) ==
    IF \E i \in 1..Len(map) : value_eq(map[i].key, key)
    THEN [i \in 1..Len(map) |->
             IF value_eq(map[i].key, key) THEN [key |-> map[i].key, value |-> value]
             ELSE map[i]]
    ELSE Append(map, [key |-> key, value |-> value])

\* Map::insert, were the running hashes chained instead of xor-ed.
insert_chained(m, key, value) ==
    [map |-> index_insert(m.map, key, value),
     hash_of_keys |-> (m.hash_of_keys * 2 + hash_of(key)) % (2 ^ Bits64),
     hash_of_values |-> (m.hash_of_values * 2 + hash_of(value)) % (2 ^ Bits64)]

\* Map::insert
insert(m, key, value) ==
    [map |-> index_insert(m.map, key, value),
     hash_of_keys |-> xor(m.hash_of_keys, hash_of(key)),
     hash_of_values |-> xor(m.hash_of_values, hash_of(value))]

\* impl PartialEq for IndexMap: as many entries, and each key of a is in b with an
\* equal value
index_eq(a, b) ==
    /\ Len(a) = Len(b)
    /\ \A i \in 1..Len(a) :
           \E j \in 1..Len(b) : value_eq(a[i].key, b[j].key) /\ value_eq(a[i].value, b[j].value)

\* impl PartialEq for Map
map_eq(a, b) ==
    /\ a.hash_of_keys = b.hash_of_keys
    /\ a.hash_of_values = b.hash_of_values
    /\ index_eq(a.map, b.map)

\* impl Hash for Map: what it feeds the Hasher
map_hash(m) == <<m.hash_of_keys, m.hash_of_values, Len(m.map)>>

\* The keys and the values the maps are made of.
MapKeys == {String(<<"a">>), String(<<"b">>)}
MapValues == {NumberValue(I128(1)), NumberValue(I128(2))}

\* How many calls of insert each Map gets.
MaxInserts == 2

NewMaps == [which \in {"a", "b"} |-> NewMap]
NoInserts == [which \in {"a", "b"} |-> <<>>]
NoHasher == [value \in MapKeys \cup MapValues |-> 0]

\* What the DefaultHasher may give: hashes that differ, that collide, and that
\* cancel under xor.
Hashers == {h \in [MapKeys \cup MapValues -> 1..3] : h[String(<<"a">>)] = 1}

\* map.insert(key, value) on one of the two Maps
Map_insert ==
    /\ \E which \in {"a", "b"}, key \in MapKeys, value \in MapValues :
           /\ Len(inserts[which]) < MaxInserts
           /\ maps' = [maps EXCEPT ![which] = insert(maps[which], key, value)]
           /\ inserts' = [inserts EXCEPT ![which] = Append(@, [key |-> key, value |-> value])]
    /\ UNCHANGED <<hasher, string_vars, number_vars, value_vars, parse_vars>>

(***************************************************************************)
(* The inputs.                                                             *)
(***************************************************************************)
\* The pieces the generated sources are made of.
Fragments ==
    {<<"a">>, <<":">>, <<",">>, <<"[">>, <<"]">>, <<"{">>, <<"}">>, <<"/", "/", "c">>, <<"\n">>}

\* The longest generated source, in fragments.
MaxFragments == 3

GeneratedSources ==
    UNION {{Concat(fs) : fs \in [1..n -> Fragments]} : n \in 0..MaxFragments}

\* Sources written by hand: the input of the parser test of the repository and the
\* shapes the generated sources are too short for.
\* A string whose slice has n bytes.
WideString(n) == <<"\"">> \o [i \in 1..(n - 2) |-> "a"] \o <<"\"">>

Corpus ==
    {
      \* the input of test_parse_map (parse.rs), its comments shortened
      <<"\n", "/", "/", " ", "A", "\n", "/", "/", " ", "B", "\n", "k", "e", "y", "1", ":",
        " ", "4", "2", "\n", "\n", "/", "/", " ", "C", "\n", "k", "e", "y", "2", ":", "\n",
        "/", "/", " ", "D", "\n", "\"", "s", "t", "r", "i", "n", "g", "\"", " ", "/", "/",
        " ", "S", "\n", "\n", "/", "/", " ", "E", "\n", "/", "/", " ", "F", "\n">>,
      \* a map in braces with a comment after the closing brace
      <<"{", "a", ":", " ", "1", "}", " ", "/", "/", " ", "c">>,
      \* a comment between a key and its colon
      <<"a", " ", "/", "/", " ", "c", "\n", ":", " ", "1">>,
      \* a comment between the colon and the value
      <<"a", ":", " ", "/", "/", " ", "c", "\n", "1">>,
      \* a comment before the comma and one after it
      <<"[", "1", " ", "/", "/", " ", "a", "\n", ",", " ", "/", "/", " ", "b", "\n", "2",
        "]">>,
      \* a comment before the comma, none after it
      <<"[", "1", " ", "/", "/", " ", "a", "\n", ",", " ", "2", "]">>,
      \* a comment after the comma, then one on the next line
      <<"[", "1", ",", " ", "/", "/", " ", "b", "\n", "/", "/", " ", "p", "\n", "2", "]">>,
      \* comments on later lines, after a comma and before the closing bracket
      <<"[", "1", ",", "\n", "/", "/", " ", "p", "\n", "2", "\n", "/", "/", " ", "q", "\n",
        "]">>,
      \* a single value with a comment on the next line
      <<"1", "\n", "/", "/", " ", "c">>,
      \* a list with comments before and after it
      <<"/", "/", " ", "p", "\n", "[", "1", ",", " ", "2", "]", " ", "/", "/", " ", "s">>,
      \* a variant with two values
      <<"\"", "V", "\"", "(", "1", ",", " ", "2", ")">>,
      \* a variant without values
      <<"\"", "V", "\"", "(", ")">>,
      \* a variant of one map
      <<"'", "V", "'", "(", "{", "a", ":", " ", "1", "}", ")">>,
      \* a variant of one list, a comment inside
      <<"\"", "V", "\"", "(", "[", "1", ",", " ", "/", "/", " ", "c", "\n", "2", "]", ")">>,
      \* an identifier followed by parentheses
      <<"V", "(", "1", ")">>,
      \* a variant with a space before its parentheses
      <<"\"", "V", "\"", " ", "(", "1", ")">>,
      \* a string, a comment, then parentheses
      <<"\"", "V", "\"", " ", "/", "/", "c", "\n", "(", "1", ")">>,
      \* five numbers
      <<"a", ":", " ", "[", "1", ",", " ", "2", ",", " ", "3", ",", " ", "4", ",", " ", "5",
        "]">>,
      \* nested lists and maps
      <<"[", "[", "1", ",", " ", "2", "]", ",", " ", "{", "a", ":", " ", "b", "}", ",", " ",
        "[", "]", "]">>,
      \* a key twice
      <<"a", ":", " ", "1", "\n", "a", ":", " ", "2", ",", " ", "b", ":", " ", "3">>,
      \* a multiline string and a literal string
      <<"a", ":", " ", "\"", "\"", "\"", "x", "\n", "y", "\"", "\"", "\"", "\n", "b", ":",
        " ", "'", "z", "'">>,
      \* an invalid token
      <<"a", ":", " ", "@">>,
      \* a carriage return
      <<"a", ":", " ", "1", "\r", "\n", "b", ":", " ", "2">>,
      \* a value missing
      <<"a", ":", " ", "1", ",", " ", "b", ":">>,
      \* four numbers; four simple values; five identifiers
      <<"[", "1", ",", "2", ",", "3", ",", "4", "]">>,
      <<"[", "a", ",", " ", "[", "]", ",", " ", "{", "}", ",", " ", "'", "b", "'", "]">>,
      <<"[", "a", " ", "b", " ", "c", " ", "d", " ", "e", "]">>,
      \* a multiline string in a list
      <<"[", "\"", "\"", "\"", "x", "\n", "y", "\"", "\"", "\"", "]">>,
      \* lists and variants in lists and variants
      <<"[", "[", "1", "]", ",", " ", "2", "]">>,
      <<"\"", "V", "\"", "(", "1", ",", " ", "[", "2", "]", ")">>,
      <<"\"", "V", "\"", "(", "[", "1", ",", "2", ",", "3", ",", "4", ",", "5", "]", ")">>,
      \* a variant of one empty list or map with a comment before it; of one list
      \* with a comment after it; of one number with a comment after it
      <<"\"", "V", "\"", "(", "/", "/", " ", "c", "\n", "[", "]", ")">>,
      <<"\"", "V", "\"", "(", "/", "/", " ", "c", "\n", "{", "}", ")">>,
      <<"\"", "V", "\"", "(", "[", "1", "]", " ", "/", "/", " ", "c", "\n", ")">>,
      <<"\"", "V", "\"", "(", "1", " ", "/", "/", " ", "c", "\n", ")">>,
      \* three entries, a comment before the second; before the value of the first
      <<"a", ":", " ", "1", "\n", "/", "/", " ", "c", "\n", "b", ":", " ", "2", "\n", "d", ":",
        " ", "3">>,
      <<"a", ":", " ", "/", "/", " ", "c", "\n", "1", "\n", "b", ":", " ", "2">>,
      \* three values, a comment before the second; closing comments with and without one
      <<"[", "1", "\n", "/", "/", " ", "c", "\n", "2", "\n", "3", "]">>,
      <<"[", "/", "/", " ", "p", "\n", "1", "\n", "2", "\n", "/", "/", " ", "q", "\n", "]">>,
      <<"{", "a", ":", " ", "1", "\n", "b", ":", " ", "2", "\n", "/", "/", " ", "q", "\n", "}">>,
      \* a variant of two values, a comment before the first; closing comments
      <<"'", "V", "'", "(", "/", "/", " ", "c", "\n", "1", ",", " ", "2", ")">>,
      <<"'", "V", "'", "(", "1", "\n", "/", "/", " ", "q", "\n", ")">>,
      \* two values without brackets
      <<"1", " ", "2">>,
      \* an empty list that holds a comment, in a list
      <<"[", "[", "/", "/", " ", "c", "\n", "]", ",", " ", "1", "]">>
    }
    \cup {<<"[">> \o WideString(n) \o <<"]">> : n \in {WidthLimit - 3, WidthLimit - 2}}
    \cup {<<"'", "V", "'", "(">> \o WideString(n) \o <<")">> : n \in {WidthLimit - 3, WidthLimit - 2}}

\* The deepest nesting of the sources made of opening delimiters.
MaxNesting == 66

\* What opens one more level: a list, a map as the value of a key, a variant.
Openers == {<<"[">>, <<"{", "a", ":">>, <<"\"", "V", "\"", "(">>}

\* Sources nested about as deep as parse_token_tree allows: opening delimiters only,
\* the same after a closing bracket, and lists that are closed again.
DeepSources ==
    UNION {{Repeated(open, n), <<"]">> \o Repeated(open, n)} :
              open \in Openers, n \in 63..MaxNesting}
    \cup {Repeated(<<"[">>, n) \o Repeated(<<"]">>, n) : n \in 65..MaxNesting}

Sources == GeneratedSources \cup Corpus \cup DeepSources

OptionSets == {DefaultOptions, [DefaultOptions EXCEPT !.always_include_outer_braces = TRUE]}

IdleStrings == raw = None /\ quoted = None /\ unquoted = None
IdleNumbers == num_a = NoNumber /\ num_b = NoNumber /\ num_r = NothingSeen
IdleValues == subject = None /\ subject_text = None /\ subject_back = None
IdleMaps == hasher = NoHasher /\ maps = NewMaps /\ inserts = NoInserts

\* No reformat call has been made.
IdleParse ==
    /\ calls = <<>>
    /\ eon_source = <<>>
    /\ lexer = [pos \in 0..0 |-> Lex(<<>>, pos)]
    /\ top = IdleTop
    /\ tokens = NewPeekableIter
    /\ stack = <<>>
    /\ ret = NoResult
    /\ deepest = 0

Init ==
    /\ input \in Sources
    /\ options \in OptionSets
    /\ IdleParse /\ IdleStrings /\ IdleNumbers /\ IdleValues /\ IdleMaps

\* The chars of the raw strings, and their greatest length.
RawChars == {"a", " ", "\"", "'", "\\", "\n", "\r", "\t", "NUL", "SOH", "ESC", "DEL"}
MaxRawLen == 3

RawStrings == UNION {[1..n -> RawChars] : n \in 0..MaxRawLen}

\* Quoted strings written by hand: one of every kind, and the malformed ones.
QuotedStrings ==
    {
      <<"'", "'", "'", "\n", "x", "\n", "y", "'", "'", "'">>,
      <<"'", "'", "'", "x">>,
      <<"'", "a", "\"", "\\", "'">>,
      <<"'", "a">>,
      <<"'", "a", "\n", "b", "'">>,
      <<"\"", "\"", "\"", "a", "\\", "\n", " ", " ", "b", "\n", "c", "\"", "\"", "\"">>,
      <<"\"", "\"", "\"", "a", "\r", "\n", "b", "\"", "\"", "\"">>,
      <<"\"", "\"", "\"", "x">>,
      <<"\"", "a", "\r", "\n", "b", "\"">>,
      <<"\"", "x">>,
      <<"\"", "a", "\\", "\"">>,
      <<"\"", "\\", "q", "\"">>,
      <<"\"", "\\", "0", "\"">>,
      <<"\"", "\\", "e", "\\", "a", "\\", "b", "\\", "f", "\\", "v", "\\", "/", "\\", " ",
        "\\", "$", "\\", "GRAVE", "\\", "E", "\"">>,
      <<"\"", "\\", "u", "{", "1", "F", "_", "6", "0", "0", "}", "\"">>,
      <<"\"", "\\", "u", "{", "7", "f", "}", "\"">>,
      <<"\"", "\\", "u", "{", "1", "1", "0", "0", "0", "0", "}", "\"">>,
      <<"\"", "\\", "u", "{", "D", "8", "0", "0", "}", "\"">>,
      <<"\"", "\\", "u", "{", "1", "2", "3", "4", "5", "6", "7", "8", "9", "}", "\"">>,
      <<"\"", "\\", "u", "{", "g", "}", "\"">>,
      <<"\"", "\\", "u", "{", "1", "\"">>,
      <<"\"", "\\", "u", "1", "\"">>,
      <<"a">>
    }

\* What is written between the braces of a Unicode escape: up to MaxEscapeDigits of
\* one digit, and the ends of the ranges of the scalar values.
MaxEscapeDigits == 9

EscapeBodies ==
    {[i \in 1..n |-> c] : c \in {"0", "F"}, n \in 0..MaxEscapeDigits}
    \cup {<<"_">>, <<"4", "1">>, <<"0", "0", "0", "0", "_", "0", "0", "4", "1">>,
          <<"0", "0", "0", "0", "0", "0", "0", "4", "1">>,
          <<"F", "F", "F", "F", "F", "F", "F", "F", "_">>,
          <<"1", "0", "F", "F", "F", "F">>, <<"1", "1", "0", "0", "0", "0">>,
          <<"D", "7", "F", "F">>, <<"D", "8", "0", "0">>, <<"D", "F", "F", "F">>,
          <<"E", "0", "0", "0">>, <<"4", "g">>, <<"4", " ">>, <<"7", "f">>}

\* A basic string, of one line or more, that holds one Unicode escape.
UnicodeEscape(quotes, body) == quotes \o <<"\\", "u", "{">> \o body \o <<"}">> \o quotes
UnclosedEscape(quotes, body) == quotes \o <<"\\", "u", "{">> \o body \o quotes

UnicodeEscapes ==
    {UnicodeEscape(k, b) : k \in {<<"\"">>, TripleDouble}, b \in EscapeBodies}
    \cup {UnclosedEscape(k, b) : k \in {<<"\"">>, TripleDouble}, b \in EscapeBodies}

\* A raw string to quote and unquote again, or a quoted string to unquote.
InitStr ==
    /\ input = <<>> /\ options = DefaultOptions
    /\ IdleParse /\ IdleNumbers /\ IdleValues /\ IdleMaps
    /\ unquoted = None
    /\ \/ raw \in {Some(s) : s \in RawStrings} /\ quoted = None
       \/ raw = None /\ quoted \in {Some(s) : s \in QuotedStrings \cup UnicodeEscapes}

NextStr ==
    \/ quote
    \/ unquote

SpecStr == InitStr /\ [][NextStr]_vars

\* The literals: the spellings of small numbers, and the numbers where the ranges
\* of i64, i128 and u128 end.
Literals ==
    {<<"0">>, <<"-", "0">>, <<"1">>, <<"+", "1">>, <<"-", "1">>, <<"1", "0">>,
     <<"1", "_", "0">>, <<"+", "0", "x", "0", "a">>, <<"0", "x", "A">>,
     <<"0", "b", "1", "0", "1", "0">>, <<"-", "0", "b", "1">>,
     <<"1", ".", "0">>, <<"1", ".">>, <<"-", "1", ".", "0">>, <<"1", ".", "5">>,
     <<"2", ".", "5">>, <<".", "2", "5">>, <<"1", "e", "1">>, <<"1", "0", "0", "E", "-", "1">>,
     <<"5", "e", "-", "1">>, <<"0", ".", "0">>, <<"-", "0", ".", "0">>,
     <<"+", "n", "a", "n">>, <<"+", "i", "n", "f">>, <<"-", "i", "n", "f">>,
     <<"n", "a", "n">>, <<"+", "N", "a", "N">>, <<"i", "n", "f">>,
     <<"0", "x">>, <<"1", "e">>, <<".">>, <<"a">>, <<>>, <<"-">>,
     <<"-", "0", "b", "1", "0", "1", "0", "1", "0">>, <<"1", "2", "_", "3">>,
     <<"-", "0", "x">> \o Hex(I128_MAX + 1), <<"-", "0", "x">> \o Hex(I128_MAX)}
    \cup {Decimal(n) : n \in {I64_MAX, I64_MAX + 1, I128_MAX, I128_MAX + 1, U128_MAX,
                              U128_MAX + 1}}
    \cup {Decimal(n) \o <<".", "0">> : n \in {I64_MAX + 1, I128_MAX + 1, U128_MAX + 1}}
    \cup {<<"-">> \o Decimal(n) : n \in {I64_MAX + 1, I64_MAX + 2, I128_MAX + 1,
                                          I128_MAX + 2}}
    \cup {<<"-">> \o Decimal(n) \o <<".", "0">> : n \in {I64_MAX + 1, 2 * (I64_MAX + 1)}}

\* The integers the Numbers are built of: those at the ends of the ranges.
Landmarks ==
    {0, 1, 2, 3, I64_MAX - 1, I64_MAX, I64_MAX + 1, U64_MAX, U64_MAX + 1, I128_MAX - 1,
     I128_MAX, I128_MAX + 1, U128_MAX}

\* The floats of a format: those nearest to the landmarks, some that are no
\* integers, the zeros, the infinities and NaN.
Floats(fmt) ==
    {int_as_float(i, fmt) : i \in Landmarks}
    \cup {int_as_float(-i, fmt) : i \in Landmarks}
    \cup {Finite(neg, mag) : neg \in BOOLEAN, mag \in {1, 2, 6}}
    \cup {Finite(TRUE, 0), Infinity(FALSE), Infinity(TRUE), NaN}

\* The Numbers built without a literal, as by Number::from.
Numbers ==
    {I128(i) : i \in {n \in Landmarks : n <= I128_MAX}}
    \cup {I128(-i) : i \in {n \in Landmarks : n <= I128_MAX + 1}}
    \cup {U128(i) : i \in Landmarks}
    \cup {F32(f) : f \in Floats(F32Format)}
    \cup {F64(f) : f \in Floats(F64Format)}

\* A Number, parsed or built, for as_i64; or two literals to parse and compare.
InitNum ==
    /\ input = <<>> /\ options = DefaultOptions
    /\ IdleParse /\ IdleStrings /\ IdleValues /\ IdleMaps
    /\ num_r = NothingSeen
    /\ \/ /\ num_a \in {Literal(s) : s \in Literals} \cup {Built(n) : n \in Numbers}
          /\ num_b = NoNumber
       \/ /\ num_a \in {Literal(s) : s \in Literals}
          /\ num_b \in {Literal(s) : s \in Literals}

NextNum ==
    \/ parse_a
    \/ parse_b
    \/ narrow
    \/ negate
    \/ from_v
    \/ print_v
    \/ compare

SpecNum == InitNum /\ [][NextNum]_vars

\* The Values: every leaf, and lists, maps and variants of a few leaves.
StringSubjects ==
    {s \in RawStrings : Len(s) <= 2}
    \cup {<<"n","u","l","l">>, <<"t","r","u","e">>, <<"a","_","1">>, <<"1","a">>}

NumberSubjects ==
    {I128(i) : i \in {0, 1, -1, I64_MIN, I128_MAX, I128_MIN + 1, I128_MIN}}
    \cup {U128(i) : i \in {0, 7, I128_MAX + 1, U128_MAX}}
    \cup {F32(f) : f \in {Finite(FALSE, 0), Finite(TRUE, 0), Finite(FALSE, 5), NaN,
                          Infinity(FALSE)}}
    \cup {F64(f) : f \in {Finite(FALSE, 4), Finite(TRUE, 6), Finite(FALSE, 3), NaN,
                          Infinity(TRUE), int_as_float(U128_MAX + 1, F64Format)}}

Leaves ==
    {Null, Bool(TRUE), Bool(FALSE)}
    \cup {NumberValue(n) : n \in NumberSubjects}
    \cup {String(s) : s \in StringSubjects}

SmallLeaves ==
    {Null, Bool(FALSE), NumberValue(I128(-1)), NumberValue(F64(Finite(FALSE, 6))),
     String(<<"a">>), String(<<"a", " ">>)}

Keys ==
    {String(<<"a">>), String(<<"b">>), String(<<"n","u","l","l">>), String(<<" ">>),
     NumberValue(U128(1)), Null}

MaxElements == 2

Lists == {List(values) : values \in UNION {[1..n -> SmallLeaves] : n \in 0..MaxElements}}

Maps ==
    {Map(entries) :
        entries \in {e \in UNION {[1..n -> [key : Keys, value : {Null, String(<<"a">>)}]] :
                                      n \in 0..MaxElements} :
                        \A i, j \in DOMAIN e : i # j => ~value_eq(e[i].key, e[j].key)}}

Variants ==
    {Variant(name, values) :
        name \in {<<"V">>, <<"a", " ">>, <<"n","u","l","l">>},
        values \in UNION {[1..n -> SmallLeaves] : n \in 1..MaxElements}}

Nested ==
    {List(<<l, m>>) : l \in {List(<<Null>>), List(<<>>)},
                      m \in {Map(<<[key |-> String(<<"a">>), value |-> List(<<Bool(TRUE)>>)]>>),
                             Map(<<>>), Variant(<<"V">>, <<List(<<Null>>)>>)}}
    \cup {Map(<<[key |-> k, value |-> v]>>) :
              k \in {List(<<Null>>), Map(<<>>), String(<<"a">>)},
              v \in {Map(<<[key |-> String(<<"b">>), value |-> Null]>>),
                     Variant(<<"V">>, <<Null>>), List(<<Null, Null>>)}}

Values == Leaves \cup Lists \cup Maps \cup Variants \cup Nested

\* The spellings of NaN and the infinities: the three of the language, and others.
SpecialSpellings == {<<"+", "n", "a", "n">>, <<"+", "i", "n", "f">>, <<"-", "i", "n", "f">>}

AlmostSpellings ==
    {<<"n", "a", "n">>, <<"N", "a", "N">>, <<"+", "N", "a", "N">>, <<"-", "n", "a", "n">>,
     <<"i", "n", "f">>, <<"I", "n", "f">>, <<"+", "I", "n", "f">>, <<"+", "I", "N", "F">>,
     <<"+", "i", "n", "f", "i", "n", "i", "t", "y">>,
     <<"-", "I", "n", "f", "i", "n", "i", "t", "y">>}

\* The texts handed to Value::from_str that no Value::format wrote.
ValueTexts ==
    SpecialSpellings \cup AlmostSpellings
    \cup {<<"+", "1", ".", "5">>, <<"-", "0">>, <<"n", "i", "l">>, <<"T", "r", "u", "e">>,
          <<"[", "+", "i", "n", "f", ",", " ", "-", "i", "n", "f", "]">>}

\* A Value to format and read back, or a text to read.
InitVal ==
    /\ options = DefaultOptions
    /\ IdleParse /\ IdleStrings /\ IdleNumbers /\ IdleMaps
    /\ subject_back = None
    /\ \/ /\ subject \in {Some(v) : v \in Values}
          /\ subject_text = None /\ input = <<>>
       \/ /\ subject = None
          /\ input \in ValueTexts
          /\ subject_text = Some(Ok(input))

NextVal ==
    \/ Value_format
    \/ Value_from_str
    \/ Value_from_tree
    \/ top_map
    \/ top_list
    \/ list_loop
    \/ list_value
    \/ map_loop
    \/ map_key
    \/ map_value
    \/ tree_enter
    \/ tree_close

SpecVal == InitVal /\ [][NextVal]_vars

InitMap ==
    /\ options = DefaultOptions /\ input = <<>>
    /\ IdleParse /\ IdleStrings /\ IdleNumbers /\ IdleValues
    /\ hasher \in Hashers
    /\ maps = NewMaps
    /\ inserts = NoInserts

NextMap == Map_insert

SpecMap == InitMap /\ [][NextMap]_vars

\* Option sets that differ from the default in one textual option.
TextualOptionSets ==
    {DefaultOptions,
     [DefaultOptions EXCEPT !.indentation = <<" ", " ">>],
     [DefaultOptions EXCEPT !.newline = <<"\r", "\n">>],
     [DefaultOptions EXCEPT !.space_before_suffix_comment = <<" ", " ">>],
     [DefaultOptions EXCEPT !.key_value_separator = <<" ", "=", " ">>]}

\* A source of the corpus to reformat with one of them.
InitFmt ==
    /\ input \in Corpus
    /\ options \in TextualOptionSets
    /\ IdleParse /\ IdleStrings /\ IdleNumbers /\ IdleValues /\ IdleMaps

Next ==
    \/ parse_top_str
    \/ top_map
    \/ top_list
    \/ list_loop
    \/ list_value
    \/ map_loop
    \/ map_key
    \/ map_value
    \/ tree_enter
    \/ tree_close
    \/ reformat

Spec == Init /\ [][Next]_vars

SpecFmt == InitFmt /\ [][Next]_vars

\* parse_str alone, on the deep sources and on the deepest lists that it accepts.
InitDeep ==
    /\ input \in DeepSources
                \cup {Repeated(<<"[">>, n) \o Repeated(<<"]">>, n) : n \in 63..64}
    /\ options = DefaultOptions
    /\ IdleParse /\ IdleStrings /\ IdleNumbers /\ IdleValues /\ IdleMaps

NextDeep ==
    \/ parse_top_str
    \/ top_map
    \/ top_list
    \/ list_loop
    \/ list_value
    \/ map_loop
    \/ map_key
    \/ map_value
    \/ tree_enter
    \/ tree_close

SpecDeep == InitDeep /\ [][NextDeep]_vars

\* A step of parse_str after its call.
parser_step ==
    \/ top_map
    \/ top_list
    \/ list_loop
    \/ list_value
    \/ map_loop
    \/ map_key
    \/ map_value
    \/ tree_enter
    \/ tree_close

\* parse_str alone on every source, run to its end: once it is called, the one
\* thread that runs the parser takes its next step for as long as there is one.
InitRun ==
    /\ input \in Sources
    /\ options = DefaultOptions
    /\ IdleParse /\ IdleStrings /\ IdleNumbers /\ IdleValues /\ IdleMaps

SpecRun == InitRun /\ [][NextDeep]_vars /\ WF_vars(parser_step)

(***************************************************************************)
(* What the claims are stated over.                                        *)
(***************************************************************************)
\* The first reformat call has returned / both have.
Reformatted == Len(calls) >= 1
ReformattedTwice == Len(calls) = 2

\* The source of the i-th reformat call, what its parse_str returned, the String
\* its format returned.
SourceOf(i) == calls[i].source
ParsedOf(i) == calls[i].top.result
FormattedOf(i) == finish(calls[i].formatter[1])

\* The texts of a sequence of comments (of an Option of a comment).
Texts(comments) == [i \in 1..Len(comments) |-> comments[i].text]

RECURSIVE Shape(_)
\* A node without its spans: its value with the tags, atoms and order of the elements
\* and entries, and the texts of the comments attached to every node.
Shape(tt) ==
    LET v == tt.value
        elements == [i \in 1..Len(v.values) |-> Shape(v.values[i])]
        entries == [i \in 1..Len(v.key_values) |->
                       [key |-> Shape(v.key_values[i].key),
                        value |-> Shape(v.key_values[i].value)]]
        shape == CASE v.tag = "List" ->
                        [tag |-> "List", values |-> elements,
                         closing_comments |-> Texts(v.closing_comments)]
                   [] v.tag = "Map" ->
                        [tag |-> "Map", key_values |-> entries,
                         closing_comments |-> Texts(v.closing_comments)]
                   [] v.tag = "Variant" ->
                        [tag |-> "Variant", quoted_name |-> v.quoted_name,
                         values |-> elements,
                         closing_comments |-> Texts(v.closing_comments)]
                   [] OTHER -> v
    IN  [prefix_comments |-> Texts(tt.prefix_comments), value |-> shape,
         suffix_comment |-> Texts(tt.suffix_comment)]

(***************************************************************************)
(* C1.  Reformatting is idempotent: for every source that parses and every *)
(* FormatOptions, reformatting the output of reformat succeeds and gives   *)
(* that output again.                                                      *)
(***************************************************************************)
C1_ReformatIdempotent ==
    (ReformattedTwice /\ ParsedOf(1).kind = "Ok") =>
        /\ ParsedOf(2).kind = "Ok"
        /\ FormattedOf(2) = FormattedOf(1)

(***************************************************************************)
(* C2.  Structural round trip: for every tree T parsed from a valid source,*)
(* parsing format(T, default options) gives a tree with the same tags,     *)
(* atoms, order of elements and entries, and the same prefix, suffix and   *)
(* closing comments on every node; only the spans may differ.              *)
(***************************************************************************)
C2_StructuralRoundTrip ==
    (ReformattedTwice /\ options = DefaultOptions /\ ParsedOf(1).kind = "Ok") =>
        /\ ParsedOf(2).kind = "Ok"
        /\ Shape(ParsedOf(2).val) = Shape(ParsedOf(1).val)

(***************************************************************************)
(* The tokens of eon_source, as the lexer yields them one after the other. *)
(***************************************************************************)
\* The offset the lexer is at after the token it yields from offset pos.
TokenEnd(pos) == IF lexer[pos].some THEN lexer[pos].span.end ELSE pos

RECURSIVE Reached(_, _)
\* The offsets the lexer gets to from `offsets` in any number of hops; `hop` is
\* squared at every round, so the rounds are few.
Reached(offsets, hop) ==
    LET more == offsets \cup {hop[pos] : pos \in offsets} IN
    IF more = offsets THEN offsets
    ELSE Reached(more, [pos \in DOMAIN hop |-> hop[hop[pos]]])

\* The tokens of eon_source: [some, span, kind] each.
Stream ==
    LET offsets == Reached({0}, [pos \in DOMAIN lexer |-> TokenEnd(pos)])
    IN  {lexer[pos] : pos \in {q \in offsets : lexer[q].some}}

OpeningKinds == {"OpenList", "OpenBrace", "OpenParen"}
ClosingKinds == {"CloseList", "CloseBrace", "CloseParen"}

\* How many opening delimiters are not closed yet at token t of the tokens `all`:
\* those up to and including t less the closing delimiters before t.
Level(all, t) ==
    Cardinality({u \in all : u.kind \in OpeningKinds /\ u.span.start <= t.span.start})
    - Cardinality({u \in all : u.kind \in ClosingKinds /\ u.span.start < t.span.start})

\* The nesting of eon_source: the largest level of an opening delimiter.
Nesting ==
    LET all == Stream
        levels == {Level(all, t) : t \in {u \in all : u.kind \in OpeningKinds}}
    IN  IF levels = {} THEN 0 ELSE CHOOSE n \in levels : \A m \in levels : m <= n

\* One level of brackets costs two units of recurse_depth: the levels allowed.
MaxLevels == MAX_RECURSION_DEPTH \div 2

\* parse_str has returned.
Parsed == top.pc = "done"

RecursionLimitMessage == <<"Maximum recursion depth exceeded while parsing document">>
IsRecursionError(r) == r.kind = "Err" /\ r.err.message = RecursionLimitMessage

\* The source is '[' repeated, at least up to a bracket of level MaxLevels + 1.
OpenListsBeyondLimit ==
    LET all == Stream IN
    \E t \in all :
        /\ Level(all, t) > MaxLevels
        /\ \A u \in all : u.span.start <= t.span.start => u.kind = "OpenList"

(***************************************************************************)
(* C3.  As stated: for every input whose nesting exceeds the ceiling,      *)
(* parse_str returns the error 'Maximum recursion depth exceeded while     *)
(* parsing document', and no call of parse_token_tree, parse_list_contents *)
(* or parse_map_contents proceeds with recurse_depth >= 128.               *)
(***************************************************************************)
C3_RecursionLimitAsStated ==
    /\ (Parsed /\ Nesting > MaxLevels) => IsRecursionError(top.result)
    /\ \A i \in 1..Len(stack) :
           \/ stack[i].recurse_depth < MAX_RECURSION_DEPTH
           \/ stack[i].fn = "parse_token_tree" /\ stack[i].pc = "enter"

(***************************************************************************)
(* C3, amended.  For every input nested deeper than 64 levels parse_str    *)
(* returns an error; it is the recursion-limit error whenever one of the   *)
(* two attempts got to the delimiter that opens level 65, as for '['       *)
(* repeated, and the error met before it otherwise.  parse_token_tree      *)
(* never passes its guard with recurse_depth >= 128; parse_list_contents   *)
(* and parse_map_contents, which have no guard, run with recurse_depth of  *)
(* at most 128.                                                            *)
(***************************************************************************)
C3_RecursionLimit ==
    /\ (Parsed /\ Nesting > MaxLevels) => top.result.kind = "Err"
    /\ (Parsed /\ OpenListsBeyondLimit) => IsRecursionError(top.result)
    /\ (Parsed /\ \E e \in {top.err_a, top.err_b} : e # None /\ IsRecursionError(Err(e[1])))
           => IsRecursionError(top.result)
    /\ deepest < MAX_RECURSION_DEPTH
    /\ \A i \in 1..Len(stack) :
           \/ stack[i].recurse_depth <= MAX_RECURSION_DEPTH
           \/ stack[i].fn = "parse_token_tree" /\ stack[i].pc = "enter"

\* A source of more than 64 levels was refused for its depth, and parse_token_tree
\* had passed its guard at the last depth allowed.
C3_Witness ==
    /\ Parsed /\ Nesting > MaxLevels
    /\ IsRecursionError(top.result)
    /\ deepest = MAX_RECURSION_DEPTH - 1

(***************************************************************************)
(* What parse_top_str had in hand when it returned: top.map is the map of  *)
(* the first attempt, top.list the list of the second, top.trailing what   *)
(* check_for_trailing_tokens said after the attempt that returned Ok.      *)
(***************************************************************************)
\* The whole input was consumed as map contents / as list contents.
ConsumedAsMap == Parsed /\ top.map # None /\ top.trailing.kind = "Ok"
ConsumedAsList == Parsed /\ top.map = None /\ top.list # None /\ top.trailing.kind = "Ok"

\* Map contents ended before the end of the input.
MapEndedEarly == Parsed /\ top.map # None /\ top.trailing.kind # "Ok"

\* No parse_list_contents consumes eon_source to its end: its first token that is
\* no comment closes a list, a map or a variant, or a colon stands outside every
\* bracket.
NotListContents ==
    LET all == Stream
        values == {t \in all : t.kind # "Comment"}
    IN  \/ \E t \in values :
               /\ t.kind \in ClosingKinds
               /\ \A u \in values : t.span.start <= u.span.start
        \/ \E t \in all : t.kind = "Colon" /\ Level(all, t) = 0

\* The node spans the whole of eon_source and has no comments of its own.
SpansWholeFile(tt) ==
    /\ tt.span = Span(0, Len(eon_source))
    /\ tt.prefix_comments = <<>>
    /\ tt.suffix_comment = None

(***************************************************************************)
(* C4.  Top-level disambiguation: when the whole input is consumed as map  *)
(* contents, parse_str returns a Map node with the span [0, len(source))   *)
(* and no comments of its own.  Otherwise, when the whole input is         *)
(* consumed as list contents, one value gives that value itself, not a     *)
(* list of one element, and two or more values give a List node that spans *)
(* [0, len(source)).  (Where the map contents end before the end of the    *)
(* input, parse_str returns the error without a second attempt: such an    *)
(* input is no list contents either.)                                      *)
(***************************************************************************)
C4_TopLevelDisambiguation ==
    /\ ConsumedAsMap =>
           /\ top.result.kind = "Ok"
           /\ top.result.val.value = top.map[1]
           /\ top.map[1].tag = "Map"
           /\ SpansWholeFile(top.result.val)
    /\ ConsumedAsList =>
           LET values == top.list[1].values IN
           /\ top.result.kind = "Ok"
           /\ Len(values) >= 1
           /\ Len(values) = 1 => top.result.val = values[1]
           /\ Len(values) >= 2 =>
                  /\ top.result.val.value = top.list[1]
                  /\ top.list[1].tag = "List"
                  /\ SpansWholeFile(top.result.val)
    /\ MapEndedEarly =>
           /\ top.result.kind = "Err"
           /\ top.list = None
           /\ NotListContents

\* A file of one value that is a list came back as that list, with its own span.
C4_Witness ==
    /\ ConsumedAsList
    /\ Len(top.list[1].values) = 1
    /\ top.result.val = top.list[1].values[1]
    /\ top.result.val.value.tag = "List"
    /\ top.result.val.suffix_comment # None

(***************************************************************************)
(* C8.  No internal assertion fires on any input: no call of the parser    *)
(* returns by a panic (the debug_assert that a map key has no prefix       *)
(* comments, the unreachable! for a Comment token in parse_token_tree, the *)
(* debug_assert and the slice index of parse_suffix_comment, the expect of *)
(* the single value), parse_str returns Ok or Err, and for every parsed    *)
(* tree format finishes with Formatter.indent = 0.                         *)
(***************************************************************************)
C8_NoPanic ==
    /\ ret.kind # "Panic"
    /\ top.result.kind # "Panic"
    /\ Parsed => top.result.kind \in {"Ok", "Err"}
    /\ \A i \in 1..Len(calls) :
           /\ ParsedOf(i).kind \in {"Ok", "Err"}
           /\ ParsedOf(i).kind = "Ok" =>
                  /\ calls[i].formatter # None
                  /\ calls[i].formatter[1].indent = 0
                  /\ FormattedOf(i).kind = "Ok"

\* A map was parsed and formatted in which a key has two prefix comments and a value
\* a suffix comment that was sliced off the same line.
C8_Witness ==
    /\ Reformatted
    /\ ParsedOf(1).kind = "Ok"
    /\ FormattedOf(1).kind = "Ok"
    /\ ParsedOf(1).val.value.tag = "Map"
    /\ \E i \in 1..Len(ParsedOf(1).val.value.key_values) :
           Len(ParsedOf(1).val.value.key_values[i].key.prefix_comments) >= 2
    /\ \E i \in 1..Len(ParsedOf(1).val.value.key_values) :
           ParsedOf(1).val.value.key_values[i].value.suffix_comment # None

(***************************************************************************)
(* The nodes of what an attempt of parse_top_str parsed, and where their   *)
(* comments stand in eon_source.                                           *)
(***************************************************************************)
\* parse_map_contents or parse_list_contents returned Ok at the top level.
Attempted == Parsed /\ (top.map # None \/ top.list # None)

\* The TokenMap or TokenList it returned.
Contents == IF top.map # None THEN top.map[1] ELSE top.list[1]

\* The nodes directly under a value: the elements of a list or variant, the keys
\* and values of a map.
Children(v) ==
    CASE v.tag \in {"List", "Variant"} -> {v.values[i] : i \in 1..Len(v.values)}
      [] v.tag = "Map" ->
            {v.key_values[i].key : i \in 1..Len(v.key_values)}
            \cup {v.key_values[i].value : i \in 1..Len(v.key_values)}
      [] OTHER -> {}

RECURSIVE Nodes(_)
\* Every node under a value.
Nodes(v) == Children(v) \cup UNION {Nodes(child.value) : child \in Children(v)}

\* The lists, maps and variants: the value itself and those of the nodes under it.
Containers(v) ==
    {v} \cup {n.value : n \in {u \in Nodes(v) : u.value.tag \in {"List", "Map", "Variant"}}}

\* Token t is not the first of the tokens `all`.
HasPrevious(all, t) == \E u \in all : u.span.start < t.span.start

\* The token before t.
Previous(all, t) ==
    CHOOSE u \in all :
        /\ u.span.start < t.span.start
        /\ \A w \in all : w.span.start < t.span.start => w.span.start <= u.span.start

\* No newline byte lies between the end of the token before t and the start of t.
OnSameLine(all, t) ==
    /\ HasPrevious(all, t)
    /\ ~Contains(Slice(eon_source, Previous(all, t).span.end, t.span.start), "\n")

\* A newline byte lies between the end of the token before t and the start of t.
OnLaterLine(all, t) ==
    /\ HasPrevious(all, t)
    /\ Contains(Slice(eon_source, Previous(all, t).span.end, t.span.start), "\n")

\* Token t ends node n: it is the last token of n.
Ends(n, t) == t.kind # "Comment" /\ t.span.end = n.span.end

\* Token t is the optional comma of node n: a comma that follows the last token of
\* n, or the comment on the line of that token.
CommaOf(all, n, t) ==
    /\ t.kind = "Comma"
    /\ HasPrevious(all, t)
    /\ LET u == Previous(all, t) IN
       \/ Ends(n, u)
       \/ /\ u.kind = "Comment" /\ OnSameLine(all, u)
          /\ Ends(n, Previous(all, u))

\* The comment is one of `comments`.
IsIn(t, comments) == \E i \in 1..Len(comments) : comments[i].start = t.span.start

\* The comment is the suffix comment of node n.
IsSuffixOf(t, n) == n.suffix_comment # None /\ n.suffix_comment[1].start = t.span.start

\* The first token after t that is no comment starts node n.
Precedes(all, t, n) ==
    /\ t.span.start < n.span.start
    /\ \A u \in all :
           (t.span.start < u.span.start /\ u.span.start < n.span.start) => u.kind = "Comment"

(***************************************************************************)
(* C9.  A comment is the suffix_comment of a value only if it is the next  *)
(* token after the value, or after the optional comma of the value, and no *)
(* newline byte lies between the end of the token consumed before it and   *)
(* its start.  A comment that follows on a later line is the suffix of no  *)
(* value: it is a prefix comment of the item that follows it, or a closing *)
(* comment.                                                                *)
(***************************************************************************)
C9_SuffixOnSameLine ==
    Attempted =>
        LET all == Stream
            nodes == Nodes(Contents)
        IN  /\ \A n \in nodes : n.suffix_comment # None =>
                   LET c == lexer[n.suffix_comment[1].start] IN
                   /\ c.some /\ c.kind = "Comment"
                   /\ c.span.start = n.suffix_comment[1].start
                   /\ n.suffix_comment[1].text = TokenSlice(eon_source, c)
                   /\ OnSameLine(all, c)
                   /\ \/ Ends(n, Previous(all, c))
                      \/ CommaOf(all, n, Previous(all, c))
            /\ top.trailing.kind = "Ok" =>
                   \A c \in {t \in all : t.kind = "Comment"} :
                       OnLaterLine(all, c) =>
                           /\ \A n \in nodes : ~IsSuffixOf(c, n)
                           /\ \/ \E n \in nodes :
                                     IsIn(c, n.prefix_comments) /\ Precedes(all, c, n)
                              \/ \E v \in Containers(Contents) : IsIn(c, v.closing_comments)

\* One value took the comment after its comma as its suffix, and a comment on a
\* later line became a prefix comment of the next value.
C9_Witness ==
    /\ Attempted /\ top.trailing.kind = "Ok"
    /\ \E n \in Nodes(Contents) :
           /\ n.suffix_comment # None
           /\ CommaOf(Stream, n, Previous(Stream, lexer[n.suffix_comment[1].start]))
    /\ \E c \in Stream, n \in Nodes(Contents) :
           /\ c.kind = "Comment" /\ OnLaterLine(Stream, c)
           /\ IsIn(c, n.prefix_comments)

(***************************************************************************)
(* Runs of comments.                                                       *)
(***************************************************************************)
\* The consecutive comments that stand directly before offset p.
RunBefore(all, p) ==
    {c \in all :
        /\ c.kind = "Comment" /\ c.span.start < p
        /\ \A u \in all : (c.span.start < u.span.start /\ u.span.start < p) =>
                              u.kind = "Comment"}

\* The comments of `all` that parse_suffix_comment gave to a node of `nodes`.
SuffixComments(all, nodes) == {c \in all : \E n \in nodes : IsSuffixOf(c, n)}

\* `comments` are the comments `run`, each with its text, in the order of the source.
Attached(comments, run) ==
    /\ {comments[i].start : i \in 1..Len(comments)} = {c.span.start : c \in run}
    /\ \A i, j \in 1..Len(comments) : i < j => comments[i].start < comments[j].start
    /\ \A i \in 1..Len(comments) :
           comments[i].text = TokenSlice(eon_source, lexer[comments[i].start])

\* The closing delimiter of a node that is a list, a map or a variant.
ClosingOf(all, n) == CHOOSE t \in all : t.kind \in ClosingKinds /\ t.span.end = n.span.end

(***************************************************************************)
(* C10.  Comment attachment.  Of the comments that are not the suffix      *)
(* comment of the item before them (C9): the consecutive comments before a *)
(* map key are the prefix_comments of that key, those between ':' and the  *)
(* value the prefix_comments of the value, those before a list element the *)
(* prefix_comments of that element, and those after the last element and   *)
(* before the closing delimiter or the end of the input the                *)
(* closing_comments of the enclosing list or map; each in source order.    *)
(***************************************************************************)
C10_CommentAttachment ==
    Attempted =>
        LET all == Stream
            nodes == Nodes(Contents)
            suffixes == SuffixComments(all, nodes)
        IN  /\ \A n \in nodes :
                   Attached(n.prefix_comments, RunBefore(all, n.span.start) \ suffixes)
            /\ \A n \in {u \in nodes : u.value.tag \in {"List", "Map", "Variant"}} :
                   Attached(n.value.closing_comments,
                            RunBefore(all, ClosingOf(all, n).span.start) \ suffixes)
            /\ top.trailing.kind = "Ok" =>
                   Attached(Contents.closing_comments,
                            RunBefore(all, Len(eon_source) + 1) \ suffixes)
            /\ \A i \in 1..Len(IF Contents.tag = "Map" THEN Contents.key_values ELSE <<>>) :
                   LET kv == Contents.key_values[i] IN
                   \A c \in RunBefore(all, kv.value.span.start) :
                       \E colon \in all :
                           /\ colon.kind = "Colon"
                           /\ kv.key.span.end <= colon.span.start
                           /\ colon.span.end <= c.span.start

\* The map of the parser test: a key with two prefix comments, a value with a prefix
\* comment after its colon, a suffix comment, two closing comments at the end.
C10_Witness ==
    /\ Attempted /\ top.map # None /\ top.trailing.kind = "Ok"
    /\ Len(Contents.closing_comments) = 2
    /\ \E i \in 1..Len(Contents.key_values) :
           Len(Contents.key_values[i].key.prefix_comments) = 2
    /\ \E i \in 1..Len(Contents.key_values) :
           /\ Len(Contents.key_values[i].value.prefix_comments) = 1
           /\ Contents.key_values[i].value.suffix_comment # None

(***************************************************************************)
(* C5.  Quote-style round trip: for every raw string r, the ones with      *)
(* double quotes, single quotes, backslashes, newlines and control         *)
(* characters such as NUL among them,                                      *)
(* unescape_and_unquote(escape_and_quote(r)) returns Ok(r).                *)
(***************************************************************************)
C5_QuoteRoundTrip ==
    (raw # None /\ unquoted # None) => unquoted[1] = Ok(raw[1])

(***************************************************************************)
(* What the literals of the comparisons denote: the kind of the literal    *)
(* and its value, counted in quarters.                                     *)
(***************************************************************************)
IntegerLiteral(s, v) == [text |-> s, kind |-> "integer", quarters |-> 4 * v]
FloatLiteral(s, q) == [text |-> s, kind |-> "float", quarters |-> q]

Denotations ==
    {IntegerLiteral(<<"0">>, 0), IntegerLiteral(<<"-", "0">>, 0),
     IntegerLiteral(<<"1">>, 1), IntegerLiteral(<<"+", "1">>, 1),
     IntegerLiteral(<<"-", "1">>, -1), IntegerLiteral(<<"-", "0", "b", "1">>, -1),
     IntegerLiteral(<<"1", "0">>, 10), IntegerLiteral(<<"1", "_", "0">>, 10),
     IntegerLiteral(<<"+", "0", "x", "0", "a">>, 10), IntegerLiteral(<<"0", "x", "A">>, 10),
     IntegerLiteral(<<"0", "b", "1", "0", "1", "0">>, 10),
     FloatLiteral(<<"0", ".", "0">>, 0), FloatLiteral(<<"-", "0", ".", "0">>, 0),
     FloatLiteral(<<"1", ".", "0">>, 4), FloatLiteral(<<"1", ".">>, 4),
     FloatLiteral(<<"-", "1", ".", "0">>, -4), FloatLiteral(<<"1", ".", "5">>, 6),
     FloatLiteral(<<"2", ".", "5">>, 10), FloatLiteral(<<".", "2", "5">>, 1),
     FloatLiteral(<<"5", "e", "-", "1">>, 2), FloatLiteral(<<"1", "e", "1">>, 40),
     FloatLiteral(<<"1", "0", "0", "E", "-", "1">>, 40)}
    \cup {IntegerLiteral(Decimal(n), n) : n \in {I64_MAX, I64_MAX + 1, I128_MAX, I128_MAX + 1}}
    \cup {IntegerLiteral(<<"-">> \o Decimal(n), -n) : n \in {I64_MAX + 1, I64_MAX + 2}}
    \cup {FloatLiteral(Decimal(n) \o <<".", "0">>, 4 * n) : n \in {I64_MAX + 1, I128_MAX + 1}}
    \cup {FloatLiteral(<<"-">> \o Decimal(n) \o <<".", "0">>, -4 * n) : n \in {I64_MAX + 1}}

Denoted(s) == CHOOSE d \in Denotations : d.text = s
IsDenoted(s) == \E d \in Denotations : d.text = s

\* Two literals were parsed and compared.
Compared ==
    /\ num_a.text # None /\ num_b.text # None /\ num_r.made = "given"
    /\ num_r.eq # None

ComparedDenoted ==
    Compared /\ IsDenoted(num_a.text[1]) /\ IsDenoted(num_b.text[1])

KindsCompared == {Denoted(num_a.text[1]).kind, Denoted(num_b.text[1]).kind}

SameValue == Denoted(num_a.text[1]).quarters = Denoted(num_b.text[1]).quarters

PlusNan == <<"+", "n", "a", "n">>

(***************************************************************************)
(* C6 as stated.  Equality of parsed Numbers: an integer literal and a      *)
(* floating-point literal never compare equal, even when they are           *)
(* numerically equal (parse("1") == parse("1.0") is false); the same        *)
(* integer written in different notations compares equal                    *)
(* (parse("+0x0a") == parse("10") is true); parse("+nan") == parse("+nan")  *)
(* is true.                                                                 *)
(***************************************************************************)
C6_KindsNeverEqual ==
    /\ (ComparedDenoted /\ KindsCompared = {"integer", "float"}) => num_r.eq = Some(FALSE)
    /\ (ComparedDenoted /\ KindsCompared = {"integer"} /\ SameValue) => num_r.eq = Some(TRUE)
    /\ (Compared /\ num_a.text[1] = PlusNan /\ num_b.text[1] = PlusNan)
           => num_r.eq = Some(TRUE)

(***************************************************************************)
(* C6, amended.  Equality of parsed Numbers: an integer literal and a       *)
(* floating-point literal compare equal when they are numerically equal     *)
(* (parse("1") == parse("1.0") is true); the same integer written in        *)
(* different notations compares equal (parse("+0x0a") == parse("10") is     *)
(* true); parse("+nan") == parse("+nan") is true.                           *)
(***************************************************************************)
C6_EqualAcrossKinds ==
    /\ (ComparedDenoted /\ KindsCompared = {"integer", "float"} /\ SameValue)
           => num_r.eq = Some(TRUE)
    /\ (ComparedDenoted /\ KindsCompared = {"integer"} /\ SameValue) => num_r.eq = Some(TRUE)
    /\ (Compared /\ num_a.text[1] = PlusNan /\ num_b.text[1] = PlusNan)
           => num_r.eq = Some(TRUE)

\* parse("1") == parse("1.0") was evaluated: an integer kept as U128, a float kept
\* as F64.
C6_Witness ==
    /\ Compared
    /\ num_a.text[1] = <<"1">> /\ num_b.text[1] = <<"1", ".", "0">>
    /\ num_a.number[1].val.tag = "U128" /\ num_b.number[1].val.tag = "F64"
    /\ num_r.eq = Some(TRUE)

(***************************************************************************)
(* The value of a Number, in quarters; None for NaN and the infinities.     *)
(***************************************************************************)
Quarters(num) ==
    CASE num.tag \in {"I128", "U128"} -> Some(4 * num.n)
      [] num.f.class # "fin" -> None
      [] OTHER -> Some(IF num.f.neg THEN -num.f.mag ELSE num.f.mag)

(***************************************************************************)
(* C7.  Narrowing accessor soundness: for every Number n of any             *)
(* representation (I128, U128, F32, F64), if n.as_i64() returns Some(v)     *)
(* then v is numerically equal to n, and Number::from(v) and the Number     *)
(* parsed from the printed v both compare equal to n.  In particular        *)
(* as_i64 returns no Some for a float equal to 2^63, which is outside the   *)
(* range of i64.                                                            *)
(***************************************************************************)
C7_NarrowingSound ==
    /\ (num_r.as_i64 # None /\ num_r.as_i64[1] # None)
           => Quarters(num_a.number[1].val) = Some(4 * num_r.as_i64[1][1])
    /\ (num_r.made \in {"from", "to_string"} /\ num_r.eq # None) => num_r.eq = Some(TRUE)

(***************************************************************************)
(* The names of variants: the tokens that may name one, the token after    *)
(* each, and the node each became.                                         *)
(***************************************************************************)
ParsedOk == Parsed /\ top.result.kind = "Ok"

\* The nodes of the tree parse_str returned.
AllNodes == {top.result.val} \cup Nodes(top.result.val.value)

\* The token after token t, whatever whitespace lies between them.
After(t) == lexer[t.span.end]

\* The token after t is '('; and it starts where t ends.
Parenthesised(t) == After(t).some /\ After(t).kind = "OpenParen"
Adjacent(t) == After(t).some /\ After(t).span.start = t.span.end

\* The variants named by token t, and t as a node of its own.
VariantsOf(t) ==
    {n \in AllNodes : n.value.tag = "Variant" /\ n.value.name_span = Some(t.span)}
StandsAlone(t, tag) ==
    \E n \in AllNodes : n.span = t.span /\ n.value = Atom(tag, TokenSlice(eon_source, t))
AtomTag(t) == IF t.kind = "Identifier" THEN "Identifier" ELSE "QuotedString"

\* The variant holds the name and reaches to a ')'.
HoldsName(n, t) ==
    /\ n.value.quoted_name = TokenSlice(eon_source, t)
    /\ n.span.start = t.span.start
    /\ \E u \in Stream : u.kind = "CloseParen" /\ u.span.end = n.span.end
    /\ \A i \in 1..Len(n.value.values) :
           /\ After(t).span.end <= n.value.values[i].span.start
           /\ n.value.values[i].span.end < n.span.end

ParenthesesMessage == <<"Parentheses must be proceeded by a string">>

(***************************************************************************)
(* C11 as stated.  Variant detection: after an Identifier token or a token *)
(* of any of the four string kinds, if the next token is '(' with no       *)
(* whitespace in between, the parser parses list contents up to ')' and    *)
(* produces a Variant node holding the name and those values (so the '('   *)
(* is no error); otherwise the token stands alone as Identifier or         *)
(* QuotedString.  A Variant node is only constructed when parentheses are  *)
(* present.                                                                *)
(***************************************************************************)
C11_VariantAsStated ==
    /\ ParsedOk =>
           \A t \in {u \in Stream : u.kind \in StringKinds \cup {"Identifier"}} :
               IF Parenthesised(t) /\ Adjacent(t)
               THEN \E n \in VariantsOf(t) : HoldsName(n, t)
               ELSE VariantsOf(t) = {} /\ StandsAlone(t, AtomTag(t))
    /\ (Parsed /\ top.result.kind = "Err" /\ top.result.err.message = ParenthesesMessage) =>
           \A t \in {u \in Stream : u.kind \in StringKinds \cup {"Identifier"}} :
               ~(Parenthesised(t) /\ Adjacent(t) /\ After(t).span = top.result.err.span)
    /\ ParsedOk =>
           \A n \in {m \in AllNodes : m.value.tag = "Variant"} :
               \E t \in Stream : n.value.name_span = Some(t.span) /\ Parenthesised(t)

(***************************************************************************)
(* C11, amended.  Variant detection: after a token of any of the four      *)
(* string kinds, if the next token is '(' (the whitespace between them,    *)
(* if any, is skipped), the parser parses list contents up to ')' and      *)
(* produces a Variant node holding the name and those values; otherwise    *)
(* the token stands alone as QuotedString.  An Identifier always stands    *)
(* alone as Identifier: no source in which '(' follows an Identifier       *)
(* parses.  A Variant node is only constructed when parentheses are        *)
(* present.                                                                *)
(***************************************************************************)
C11_VariantDetection ==
    /\ ParsedOk =>
           \A t \in {u \in Stream : u.kind \in StringKinds} :
               IF Parenthesised(t)
               THEN \E n \in VariantsOf(t) : HoldsName(n, t)
               ELSE VariantsOf(t) = {} /\ StandsAlone(t, "QuotedString")
    /\ ParsedOk =>
           \A t \in {u \in Stream : u.kind = "Identifier"} :
               ~Parenthesised(t) /\ VariantsOf(t) = {} /\ StandsAlone(t, "Identifier")
    /\ ParsedOk =>
           \A n \in {m \in AllNodes : m.value.tag = "Variant"} :
               \E t \in Stream :
                   /\ t.kind \in StringKinds
                   /\ n.value.name_span = Some(t.span) /\ Parenthesised(t)

\* A source parsed to a variant whose '(' stands a space after the name, and held
\* a string that stands alone.
C11_Witness ==
    /\ ParsedOk
    /\ \E t \in {u \in Stream : u.kind \in StringKinds} :
           /\ Parenthesised(t) /\ ~Adjacent(t)
           /\ \E n \in VariantsOf(t) : Len(n.value.values) = 1

(***************************************************************************)
(* The entries of the maps of a tree, and the atoms of a text.             *)
(***************************************************************************)
\* The entries of every map of the tree parse_str returned.
Entries ==
    UNION {{m.key_values[i] : i \in 1..Len(m.key_values)} :
              m \in {c \in Containers(top.result.val.value) : c.tag = "Map"}}

\* Token c is the colon of the entry: it stands between the key and the value, and
\* nothing but comments stands there with it.
ColonOf(all, kv, c) ==
    /\ c.kind = "Colon"
    /\ kv.key.span.end <= c.span.start /\ c.span.end <= kv.value.span.start
    /\ \A u \in all :
           (kv.key.span.end <= u.span.start /\ u.span.end <= kv.value.span.start /\ u # c)
               => u.kind = "Comment"

AtomKinds == StringKinds \cup {"Identifier", "Number"}

RECURSIVE AtomsFrom(_, _)
\* The slices of the identifiers, numbers and strings of the text s from the offset
\* pos on, in their order.
AtomsFrom(s, pos) ==
    LET t == Lex(s, pos) IN
    IF ~t.some THEN <<>>
    ELSE (IF t.kind \in AtomKinds THEN <<Slice(s, t.span.start, t.span.end)>> ELSE <<>>)
         \o AtomsFrom(s, t.span.end)

(***************************************************************************)
(* C12.  For every source that parses to a map, key_values holds exactly   *)
(* one entry per 'key: value' pair of the source, in source order, with    *)
(* duplicate keys kept as separate entries (a duplicate key is no error),  *)
(* and format emits the entries in that same order, none sorted, merged or *)
(* left out: the keys and values of the output are those of the source,    *)
(* one after the other.                                                    *)
(***************************************************************************)
C12_EntriesInSourceOrder ==
    /\ ParsedOk =>
           LET all == Stream IN
           /\ \A kv \in Entries : \E c \in all : ColonOf(all, kv, c)
           /\ \A c \in {u \in all : u.kind = "Colon"} :
                  Cardinality({kv \in Entries : ColonOf(all, kv, c)}) = 1
           /\ \A m \in {c \in Containers(top.result.val.value) : c.tag = "Map"} :
                  \A i \in 1..Len(m.key_values) : \A j \in 1..Len(m.key_values) :
                      i < j => m.key_values[i].value.span.end <= m.key_values[j].key.span.start
    /\ (Reformatted /\ ParsedOf(1).kind = "Ok"
          /\ \E c \in Containers(ParsedOf(1).val.value) : c.tag = "Map") =>
           /\ FormattedOf(1).kind = "Ok"
           /\ AtomsFrom(FormattedOf(1).val, 0) = AtomsFrom(SourceOf(1), 0)

\* A source with the same key twice was parsed to a map with both entries, and its
\* output parsed to a map with both again.
C12_Witness ==
    /\ ReformattedTwice
    /\ ParsedOf(1).kind = "Ok" /\ ParsedOf(2).kind = "Ok"
    /\ \A k \in 1..2 :
           LET m == ParsedOf(k).val.value IN
           /\ m.tag = "Map" /\ Len(m.key_values) = 3
           /\ m.key_values[1].key.value = m.key_values[2].key.value
           /\ m.key_values[1].value.value # m.key_values[2].value.value


\* Value::from_str has returned for the String Value::format made of the subject.
ReadBack == subject # None /\ subject_text # None /\ subject_back # None

(***************************************************************************)
(* C13: for every Value v, Value::from_str(v.format(default options))      *)
(* succeeds and yields a Value equal to v.                                 *)
(***************************************************************************)
C13_ValueRoundTrip ==
    /\ subject_text # None => subject_text[1].kind = "Ok"
    /\ ReadBack => /\ subject_back[1].kind = "Ok"
                   /\ value_eq(subject_back[1].val, subject[1])


\* The integer an integer Number holds.
IsInteger(num) == num.tag \in {"I128", "U128"}

\* num_a.try_negate() has returned.
Negated == IsNumber(num_a) /\ num_r.negated # None

\* The literal is '-' and the decimal digits of d.
MinusLiteral(text, d) ==
    /\ text # <<>> /\ text[1] = "-"
    /\ \A i \in 2..Len(text) : text[i] \in Digits
    /\ unsigned_digits(Tail(text), 10, U128_MAX) = Some(d)

(***************************************************************************)
(* C14: try_negate returns None only when the negation is outside the      *)
(* signed 128-bit range; for every integer Number whose negation lies in   *)
(* [i128::MIN, i128::MAX], the U128 2^127 included, it returns Some Number *)
(* equal to the negation; so every literal '-d' with d <= 2^127 parses.    *)
(***************************************************************************)
C14_NegationInRange ==
    /\ (Negated /\ IsInteger(num_a.number[1].val)) =>
           LET n == num_a.number[1].val.n
               r == num_r.negated[1]
           IN IF I128_MIN <= -n /\ -n <= I128_MAX
              THEN r # None /\ as_i128(r[1]) = Some(-n)
              ELSE r = None
    /\ (Negated /\ ~IsInteger(num_a.number[1].val)) => num_r.negated[1] # None
    /\ \A d \in {I128_MAX, I128_MAX + 1} :
           (num_a.text # None /\ num_a.number # None /\ MinusLiteral(num_a.text[1], d))
               => num_a.number[1].kind = "Ok"


\* The literal of num_a was parsed / and is one whose value is written down above.
ParsedLiteral == num_a.text # None /\ num_a.number # None
ParsedDenoted == ParsedLiteral /\ IsDenoted(num_a.text[1])

\* The float a literal denotes: its sign is the sign written.
FloatDenoted(d) == Finite(d.text[1] = "-", IF d.quarters < 0 THEN -d.quarters ELSE d.quarters)

\* `f as f32 as f64 == f`
SurvivesF32(f) == Rounded(f.neg, 4 * f.mag, F32Format) = f

(***************************************************************************)
(* C15: the representation Number::from_str chooses.  An integer literal   *)
(* that fits is stored as an integer (U128, or I128 after negation); a     *)
(* literal containing '.', 'e' or 'E' whose f64 value survives a round     *)
(* trip through f32 is stored as Float32, and only otherwise as Float64.   *)
(***************************************************************************)
C15_RepresentationChosen ==
    ParsedDenoted =>
        LET d == Denoted(num_a.text[1])
            r == num_a.number[1]
        IN /\ r.kind = "Ok"
           /\ d.kind = "integer" =>
                  /\ r.val.tag = IF d.text[1] = "-" THEN "I128" ELSE "U128"
                  /\ 4 * r.val.n = d.quarters
           /\ d.kind = "float" =>
                  r.val = IF SurvivesF32(FloatDenoted(d)) THEN F32(FloatDenoted(d))
                          ELSE F64(FloatDenoted(d))


\* The integer a literal writes: an optional sign, an optional 0b or 0x, and
\* digits with '_' between them; None for any other text.
WrittenInteger(text) ==
    LET plain == SelectSeq(text, LAMBDA c : c # "_")
        signed == plain # <<>> /\ plain[1] \in {"+", "-"}
        rest == IF signed THEN Tail(plain) ELSE plain
        radix == IF Len(rest) >= 2 /\ SubSeq(rest, 1, 2) = <<"0", "b">> THEN 2
                 ELSE IF Len(rest) >= 2 /\ SubSeq(rest, 1, 2) = <<"0", "x">> THEN 16
                 ELSE 10
        digits == IF radix = 10 THEN rest ELSE SubSeq(rest, 3, Len(rest))
        v == unsigned_digits(digits, radix, U128_MAX)
    IN IF v = None THEN None
       ELSE IF signed /\ plain[1] = "-" THEN Some(-v[1])
       ELSE v

(***************************************************************************)
(* C16: every integer literal (optional sign, optional 0b or 0x, digits    *)
(* with '_' separators) whose value lies in the i128 range parses, and     *)
(* as_i128() returns exactly its value: the sign applies to binary and     *)
(* hexadecimal literals too, underscores change nothing, and -0 is 0.      *)
(***************************************************************************)
C16_IntegerLiteralsExact ==
    (/\ ParsedLiteral
     /\ WrittenInteger(num_a.text[1]) # None
     /\ WrittenInteger(num_a.text[1])[1] >= I128_MIN
     /\ WrittenInteger(num_a.text[1])[1] <= I128_MAX)
        => /\ num_a.number[1].kind = "Ok"
           /\ as_i128(num_a.number[1].val) = WrittenInteger(num_a.text[1])


\* Value::from_str has returned for a text that was given.
TextRead == subject = None /\ subject_text # None /\ subject_back # None

\* What Value::from_str returned is a Number that is NaN or an infinity.
ReadSpecial ==
    /\ subject_back[1].kind = "Ok"
    /\ subject_back[1].val.tag = "Number"
    /\ subject_back[1].val.number.tag \in {"F32", "F64"}
    /\ subject_back[1].val.number.f.class \in {"nan", "inf"}

(***************************************************************************)
(* C17: the only literals that parse to NaN or an infinity are '+nan',     *)
(* '+inf' and '-inf'; every other spelling or case (nan, NaN, +NaN, -nan,  *)
(* inf, Inf, +Inf, +INF, +infinity, -Infinity) is rejected with an error,  *)
(* by Number::from_str or by the identifier check of the conversion.       *)
(***************************************************************************)
C17_OnlyThreeSpellings ==
    TextRead =>
        /\ subject_text[1].val \in SpecialSpellings => ReadSpecial
        /\ subject_text[1].val \in AlmostSpellings => subject_back[1].kind = "Err"
        /\ ReadSpecial => subject_text[1].val \in SpecialSpellings


\* A quoted string that was given has been unquoted.
Unquoted == raw = None /\ quoted # None /\ unquoted # None

\* The hex digits between the braces, and the scalar value they write: None when
\* it is above 0x10FFFF.
EscapeDigits(body) == SelectSeq(body, LAMBDA c : c # "_")
EscapeValue(body) == digits_loop(EscapeDigits(body), 1, 16, 0, 1114111)

\* Between 1 and 8 hex digits, underscores ignored, of a Unicode scalar value.
WellFormedEscape(body) ==
    /\ \A i \in 1..Len(body) : body[i] \in DOMAIN HexDigits \cup {"_"}
    /\ Len(EscapeDigits(body)) >= 1 /\ Len(EscapeDigits(body)) <= 8
    /\ EscapeValue(body) # None
    /\ from_u32(EscapeValue(body)[1]) # None

(***************************************************************************)
(* C18: in a basic string a Unicode escape decodes to a character if and   *)
(* only if its braces enclose between 1 and 8 hex digits (underscores      *)
(* ignored) of a valid Unicode scalar value; no digits, more than 8        *)
(* digits, a char that is no hex digit, a missing closing brace, a         *)
(* surrogate or a value above 0x10FFFF make unescape_and_unquote return    *)
(* Err; the u32 accumulator never overflows.                               *)
(***************************************************************************)
C18_UnicodeEscapes ==
    /\ \A k \in {<<"\"">>, TripleDouble}, b \in EscapeBodies :
           /\ (Unquoted /\ quoted[1] = UnicodeEscape(k, b)) =>
                  IF WellFormedEscape(b)
                  THEN unquoted[1] = Ok(<<from_u32(EscapeValue(b)[1])[1]>>)
                  ELSE unquoted[1].kind = "Err"
           /\ (Unquoted /\ quoted[1] = UnclosedEscape(k, b)) => unquoted[1].kind = "Err"
    /\ Unquoted => unquoted[1].kind # "Panic"


RECURSIVE ReplacedFrom(_, _, _, _)
\* The text s from its i-th char on, every occurrence of `pattern` replaced.
ReplacedFrom(s, i, pattern, replacement) ==
    IF i > Len(s) THEN <<>>
    ELSE IF i + Len(pattern) - 1 <= Len(s) /\ SubSeq(s, i, i + Len(pattern) - 1) = pattern
    THEN replacement \o ReplacedFrom(s, i + Len(pattern), pattern, replacement)
    ELSE <<s[i]>> \o ReplacedFrom(s, i + 1, pattern, replacement)

Replaced(s, pattern, replacement) == ReplacedFrom(s, 1, pattern, replacement)

RECURSIVE TextsFrom(_, _)
\* The slices of the comments and strings of the text s from the offset pos on.
TextsFrom(s, pos) ==
    LET t == Lex(s, pos) IN
    IF ~t.some THEN {}
    ELSE (IF t.kind \in StringKinds \cup {"Comment"}
          THEN {Slice(s, t.span.start, t.span.end)} ELSE {})
         \cup TextsFrom(s, t.span.end)

\* No comment and no string of the source holds what the formatter writes between
\* the tokens: a line break, a tab, a colon, or slashes other than the two that
\* start a comment.
PlainTexts(s) ==
    \A t \in TextsFrom(s, 0) :
        /\ ~Contains(t, "\n") /\ ~Contains(t, "\t") /\ ~Contains(t, ":")
        /\ Len(SelectSeq(t, LAMBDA c : c = "/")) <= 2

\* The first reformat call formatted a tree: what it wrote, and what format writes
\* for the same tree with the default options.
FirstFormatted == Reformatted /\ calls[1].formatter # None
Written == calls[1].formatter[1].out
WrittenByDefault == format(ParsedOf(1).val, DefaultOptions).out

\* The options differ from the default in the one field at most.
OnlyDiffers(field) ==
    \A f \in DOMAIN DefaultOptions : f # field => options[f] = DefaultOptions[f]

(***************************************************************************)
(* C19: format inserts each textual option verbatim.  Every indentation    *)
(* level is one copy of options.indentation, every key/value separator is  *)
(* options.key_value_separator, every line break is options.newline, and   *)
(* what stands between a value and its suffix comment is                   *)
(* options.space_before_suffix_comment: two option sets that differ in one *)
(* of them give outputs that differ exactly at those places.               *)
(***************************************************************************)
C19_OptionsVerbatim ==
    (FirstFormatted /\ PlainTexts(SourceOf(1))) =>
        /\ OnlyDiffers("indentation") =>
               Written = Replaced(WrittenByDefault, <<"\t">>, options.indentation)
        /\ OnlyDiffers("key_value_separator") =>
               Written = Replaced(WrittenByDefault, <<":", " ">>, options.key_value_separator)
        /\ OnlyDiffers("newline") =>
               Written = Replaced(WrittenByDefault, <<"\n">>, options.newline)
        /\ OnlyDiffers("space_before_suffix_comment") =>
               Written = Replaced(WrittenByDefault, <<" ", "/", "/">>,
                                  options.space_before_suffix_comment \o <<"/", "/">>)


(***************************************************************************)
(* Lines of values.  The second reformat call parsed what the first wrote: *)
(* the spans of its tree say where format put each value of the first tree.*)
(***************************************************************************)
Reparsed ==
    /\ ReformattedTwice
    /\ ParsedOf(1).kind = "Ok"
    /\ ParsedOf(2).kind = "Ok"
    /\ SourceOf(2) = calls[1].formatter[1].out
    /\ eon_source = SourceOf(2)

\* The nodes under a value in their order.
Kids(v) ==
    CASE v.tag \in {"List", "Variant"} -> v.values
      [] v.tag = "Map" ->
            [i \in 1..(2 * Len(v.key_values)) |->
                IF i % 2 = 1 THEN v.key_values[(i + 1) \div 2].key
                ELSE v.key_values[i \div 2].value]
      [] OTHER -> <<>>

RECURSIVE Pairs(_, _)
\* Each node of the tree a with the node at its place in the tree b.
Pairs(a, b) ==
    {<<a, b>>}
    \cup UNION {Pairs(Kids(a.value)[i], Kids(b.value)[i]) :
                  i \in 1..(IF Len(Kids(a.value)) < Len(Kids(b.value))
                            THEN Len(Kids(a.value)) ELSE Len(Kids(b.value)))}

\* The lists and variants that hold a value, as format got them and as it wrote them.
Rows ==
    {p \in Pairs(ParsedOf(1).val, ParsedOf(2).val) :
        p[1].value.tag \in {"List", "Variant"} /\ p[1].value.values # <<>>}

\* Format wrote the values that it got.
SameShape(p) ==
    /\ p[2].value.tag = p[1].value.tag
    /\ Len(p[2].value.values) = Len(p[1].value.values)

\* The values of n stand on one line, ', ' between them, the brackets around them.
OnOneLine(n) ==
    LET vs == n.value.values
        s == SourceOf(2)
    IN /\ s[vs[1].span.start] \in {"[", "("}
       /\ vs[Len(vs)].span.end < Len(s)
       /\ s[vs[Len(vs)].span.end + 1] \in {"]", ")"}
       /\ \A i \in 1..(Len(vs) - 1) :
              Slice(s, vs[i].span.end, vs[i + 1].span.start) = <<",", " ">>
       /\ \A i \in 1..Len(vs) : ~Contains(Slice(s, vs[i].span.start, vs[i].span.end), "\n")

\* Nothing but indentation stands before the value e on its line, and nothing but
\* a comment after it.
OnOwnLine(e) ==
    LET s == SourceOf(2)
        t == lexer[e.span.end]
    IN /\ \E k \in 1..e.span.start :
              /\ s[k] = "\n"
              /\ \A j \in (k + 1)..e.span.start : s[j] = "\t"
       /\ \/ ~t.some
          \/ t.kind = "Comment"
          \/ Contains(Slice(s, e.span.end, t.span.start), "\n")

OnOwnLines(n) == \A i \in 1..Len(n.value.values) : OnOwnLine(n.value.values[i])

\* The one value of n stands between the parentheses, its bracket after '('.
Enclosed(n) ==
    LET e == n.value.values[1]
        s == SourceOf(2)
    IN /\ s[e.span.start] = "("
       /\ e.span.end < Len(s) /\ s[e.span.end + 1] = ")"

Uncommented(e) == e.prefix_comments = <<>> /\ e.suffix_comment = None

IsAtom(e) == e.value.tag \in {"Identifier", "Number", "QuotedString"}

\* An empty list or map, a variant without arguments.
IsEmpty(e) ==
    \/ e.value.tag \in {"List", "Variant"} /\ e.value.values = <<>>
    \/ e.value.tag = "Map" /\ e.value.key_values = <<>>

RECURSIVE Width(_, _)
\* The estimated width of the values from the i-th on.
Width(vs, i) ==
    IF i > Len(vs) THEN 0
    ELSE (IF vs[i].value.tag = "QuotedString" THEN Len(vs[i].value.slice) ELSE 5) + 2
         + Width(vs, i + 1)

\* At most four values: all numbers, or of an estimated width below the limit.
FewAndNarrow(vs) ==
    /\ Len(vs) <= 4
    /\ \/ \A i \in 1..Len(vs) : vs[i].value.tag = "Number"
       \/ Width(vs, 1) < WidthLimit

\* The condition as stated: every atom is simple.
StatedCondition(n) ==
    /\ n.value.closing_comments = <<>>
    /\ \A i \in 1..Len(n.value.values) :
           /\ Uncommented(n.value.values[i])
           /\ IsAtom(n.value.values[i]) \/ IsEmpty(n.value.values[i])
    /\ FewAndNarrow(n.value.values)

\* The condition of the code: a string that holds a line break is not simple, nor
\* is an empty list, map or variant that holds closing comments.
Condition(n) ==
    /\ StatedCondition(n)
    /\ \A i \in 1..Len(n.value.values) :
           LET e == n.value.values[i] IN
           /\ e.value.tag = "QuotedString" => ~Contains(e.value.slice, "\n")
           /\ IsEmpty(e) => e.value.closing_comments = <<>>

\* A variant of one list or one map, without closing comments.
LoneArgument(n) ==
    /\ n.value.tag = "Variant"
    /\ n.value.closing_comments = <<>>
    /\ Len(n.value.values) = 1
    /\ n.value.values[1].value.tag \in {"List", "Map"}

(***************************************************************************)
(* C20 as stated.  Line collapsing: a non-empty List or Variant argument   *)
(* list is rendered on one line, separated by ', ', exactly when it has no *)
(* closing comments, no element carries a comment, every element is simple *)
(* (an atom, or an empty list, map or argument-less variant), and there    *)
(* are at most 4 elements that are all numbers or of an estimated width    *)
(* below 60; in every other case each element is on its own line.          *)
(***************************************************************************)
C20_CollapsingAsStated ==
    Reparsed =>
        \A p \in Rows :
            /\ SameShape(p)
            /\ OnOneLine(p[2]) <=> StatedCondition(p[1])
            /\ ~StatedCondition(p[1]) => OnOwnLines(p[2])

\* The list p is the one argument of a variant without closing comments.
IsLoneList(p) ==
    /\ p[1].value.tag = "List"
    /\ \E q \in Rows : LoneArgument(q[1]) /\ q[1].value.values[1] = p[1]

(***************************************************************************)
(* C20: a non-empty list or argument list is rendered on one line, its     *)
(* values separated by ', ', when it has no closing comments, no value     *)
(* carries a comment, every value is an identifier, a number, a string     *)
(* without a line break, or an empty list, map or variant without closing  *)
(* comments, and there are at most 4 values that are all numbers or of an  *)
(* estimated width below 60.  Otherwise, the one list or map of a variant  *)
(* without closing comments is written between the parentheses, its        *)
(* bracket after '(' and ')' after its bracket, and in every other case    *)
(* each value is on its own line.  The values of a list that is the one    *)
(* argument of a variant without closing comments are always on their own  *)
(* lines.                                                                  *)
(***************************************************************************)
C20_LineCollapsing ==
    Reparsed =>
        \A p \in Rows :
            /\ SameShape(p)
            /\ IF IsLoneList(p) THEN OnOwnLines(p[2]) /\ ~OnOneLine(p[2])
               ELSE IF Condition(p[1]) THEN OnOneLine(p[2])
               ELSE IF LoneArgument(p[1]) THEN Enclosed(p[2])
               ELSE OnOwnLines(p[2]) /\ ~OnOneLine(p[2])

\* A list on one line stands in a list whose values have a line each.
C20_Witness ==
    /\ Reparsed
    /\ \E p, q \in Rows :
           /\ ~IsLoneList(p) /\ Condition(p[1]) /\ OnOneLine(p[2])
           /\ ~Condition(q[1]) /\ ~LoneArgument(q[1]) /\ OnOwnLines(q[2])


(***************************************************************************)
(* Blank lines.  The siblings of a sequence are the values of a list or of *)
(* a variant, the entries of a map; an entry reaches from its key to its   *)
(* value.                                                                  *)
(***************************************************************************)
Siblings(v) ==
    IF v.tag = "Map"
    THEN [i \in 1..Len(v.key_values) |->
             [first |-> v.key_values[i].key, last |-> v.key_values[i].value]]
    ELSE [i \in 1..Len(v.values) |-> [first |-> v.values[i], last |-> v.values[i]]]

\* The comments that format writes on the lines before a sibling.
PrefixOf(sibling) ==
    IF sibling.first = sibling.last THEN sibling.first.prefix_comments
    ELSE sibling.first.prefix_comments \o sibling.last.prefix_comments

\* An empty line lies between the offsets from and to of the text s.
Blank(s, from, to) == \E k \in (from + 1)..(to - 1) : s[k] = "\n" /\ s[k + 1] = "\n"

\* The lists, maps and variants whose siblings format wrote on lines of their own.
Sequences ==
    {p \in Pairs(ParsedOf(1).val, ParsedOf(2).val) :
        /\ p[1].value.tag \in {"List", "Map", "Variant"}
        /\ p[2].value.tag = p[1].value.tag
        /\ Len(Siblings(p[1].value)) > 0
        /\ Len(Siblings(p[2].value)) = Len(Siblings(p[1].value))
        /\ p[1].value.tag = "Map" \/ ~OnOneLine(p[2])}

\* An empty line lies between the i-th sibling and the next in what format wrote.
BlankAfter(p, i) ==
    Blank(SourceOf(2), Siblings(p[2].value)[i].last.span.end,
          Siblings(p[2].value)[i + 1].first.span.start)

\* An empty line lies between the last sibling and the end of the sequence.
BlankAtEnd(p) ==
    Blank(SourceOf(2), Siblings(p[2].value)[Len(Siblings(p[2].value))].last.span.end,
          p[2].span.end)

\* Some sibling has a comment on the lines before it.
Commented(v) == \E i \in 1..Len(Siblings(v)) : PrefixOf(Siblings(v)[i]) # <<>>
(***************************************************************************)
(* C21.  Blank-line rule of the formatter: in a multi-line list, map or    *)
(* variant argument list, if any sibling carries a prefix comment then a   *)
(* blank line is written between every pair of consecutive siblings and    *)
(* before a non-empty closing-comment block; if no sibling carries a       *)
(* prefix comment, no blank line is written.  The decision is made once    *)
(* per sequence, not per element.                                          *)
(***************************************************************************)
C21_BlankLineRule ==
    Reparsed =>
        \A p \in Sequences :
            LET n == Len(Siblings(p[1].value)) IN
            IF Commented(p[1].value)
            THEN /\ \A i \in 1..(n - 1) : BlankAfter(p, i)
                 /\ p[1].value.closing_comments # <<>> => BlankAtEnd(p)
            ELSE /\ \A i \in 1..(n - 1) : ~BlankAfter(p, i)
                 /\ ~BlankAtEnd(p)

(***************************************************************************)
(* C22.  In the output of reformat, two consecutive entries of a map are   *)
(* separated by a blank line only when the second entry has prefix         *)
(* comments: entries without prefix comments follow their predecessor      *)
(* directly, even when another entry of the same map carries prefix        *)
(* comments.                                                               *)
(***************************************************************************)
C22_BlankLineBeforeCommentedEntry ==
    Reparsed =>
        \A p \in Sequences :
            p[1].value.tag = "Map" =>
                \A i \in 1..(Len(Siblings(p[1].value)) - 1) :
                    BlankAfter(p, i) => PrefixOf(Siblings(p[1].value)[i + 1]) # <<>>


(***************************************************************************)
(* Maps.                                                                   *)
(***************************************************************************)
\* No key was inserted twice.
DistinctKeys(calls_of_insert) ==
    \A i, j \in 1..Len(calls_of_insert) :
        i # j => ~value_eq(calls_of_insert[i].key, calls_of_insert[j].key)

\* The pairs that were inserted.
PairsOf(calls_of_insert) == {calls_of_insert[i] : i \in 1..Len(calls_of_insert)}

\* Both Maps got the same pairs, each key once.
SamePairsInserted ==
    /\ DistinctKeys(inserts["a"]) /\ DistinctKeys(inserts["b"])
    /\ PairsOf(inserts["a"]) = PairsOf(inserts["b"])

(***************************************************************************)
(* C23.  Map equality and hash are independent of insertion order while    *)
(* iteration order is insertion order: two Maps built by inserting the     *)
(* same set of pairs of distinct keys in different orders compare equal    *)
(* and produce the same hash, and each holds its entries in the order in   *)
(* which they were inserted.                                               *)
(***************************************************************************)
C23_OrderIndependent ==
    SamePairsInserted =>
        /\ map_eq(maps["a"], maps["b"])
        /\ map_eq(maps["b"], maps["a"])
        /\ map_hash(maps["a"]) = map_hash(maps["b"])
        /\ maps["a"].map = inserts["a"]
        /\ maps["b"].map = inserts["b"]

\* Two pairs went into a in one order and into b in the other.
C23_Witness ==
    /\ SamePairsInserted
    /\ Len(inserts["a"]) = 2
    /\ inserts["a"] # inserts["b"]
    /\ map_eq(maps["a"], maps["b"])

RECURSIVE XorOf(_)
\* The xor of a sequence of hashes.
XorOf(hashes) == IF hashes = <<>> THEN 0 ELSE xor(Head(hashes), XorOf(Tail(hashes)))

\* The hashes of the keys, of the values, that a Map holds.
KeyHashes(m) == [i \in 1..Len(m.map) |-> hash_of(m.map[i].key)]
ValueHashes(m) == [i \in 1..Len(m.map) |-> hash_of(m.map[i].value)]

(***************************************************************************)
(* C28.  After any sequence of Map::insert calls, including calls that     *)
(* insert a key again, hash_of_keys and hash_of_values are the xor of the  *)
(* hashes of the keys and of the values that the Map holds; hence two Maps *)
(* that hold the same pairs compare equal and hash equal whatever calls    *)
(* of insert made them.                                                    *)
(***************************************************************************)
C28_RunningXor ==
    /\ \A which \in {"a", "b"} :
           /\ maps[which].hash_of_keys = XorOf(KeyHashes(maps[which]))
           /\ maps[which].hash_of_values = XorOf(ValueHashes(maps[which]))
    /\ index_eq(maps["a"].map, maps["b"].map) =>
           /\ map_eq(maps["a"], maps["b"])
           /\ map_hash(maps["a"]) = map_hash(maps["b"])


(***************************************************************************)
(* The two attempts of parse_top_str.                                      *)
(***************************************************************************)
\* parse_top_str returned after parse_map_contents and parse_list_contents failed.
BothFailed == top.pc = "done" /\ top.err_a # None /\ top.err_b # None

\* Where the last token ends that the map attempt consumed, that the list attempt
\* consumed.
MapAttemptEnd == top.tokens_a.last_span.end
ListAttemptEnd == top.tokens_b[1].last_span.end

(***************************************************************************)
(* C24.  When both the map-contents attempt and the list-contents attempt  *)
(* of parse_top_str fail, the error returned is the one of the attempt     *)
(* that consumed more input, measured by the end offset of the last token  *)
(* each cursor consumed: the error of the list attempt is returned iff its *)
(* last consumed token ends strictly later than that of the map attempt,   *)
(* and on a tie the error of the map attempt is returned.                  *)
(***************************************************************************)
C24_ErrorOfFurtherAttempt ==
    BothFailed =>
        /\ ListAttemptEnd > MapAttemptEnd => top.result = Err(top.err_b[1])
        /\ ListAttemptEnd <= MapAttemptEnd => top.result = Err(top.err_a[1])
        /\ top.err_a # top.err_b =>
               (top.result = Err(top.err_b[1]) <=> ListAttemptEnd > MapAttemptEnd)

\* The two attempts got as far as each other and failed with different errors.
C24_Witness ==
    /\ BothFailed
    /\ top.err_a # top.err_b
    /\ ListAttemptEnd = MapAttemptEnd
    /\ ListAttemptEnd > 0
    /\ top.result = Err(top.err_a[1])


(***************************************************************************)
(* The depth of the recursion.                                             *)
(***************************************************************************)
\* The source is '[' repeated, more often than there are levels.
OpenListsOnly ==
    /\ Len(eon_source) > MaxLevels
    /\ \A i \in 1..Len(eon_source) : eon_source[i] = "["

\* The source is MaxLevels empty lists, one in the other.
DeepestLists ==
    eon_source = Repeated(<<"[">>, MaxLevels) \o Repeated(<<"]">>, MaxLevels)

(***************************************************************************)
(* C25.  Every recursive call among parse_token_tree, parse_list_contents  *)
(* and parse_map_contents passes recurse_depth + 1, so one bracket level   *)
(* costs two units of the budget of 128: for an input of N >= 65           *)
(* consecutive '[' the recursion-limit error is reported with the span of  *)
(* the 64th '[' (bytes 63..64), while 64 nested empty lists parse          *)
(* successfully.                                                           *)
(***************************************************************************)
C25_TwoUnitsPerLevel ==
    /\ \A i \in 1..Len(stack) : stack[i].recurse_depth = i - 1
    /\ (Parsed /\ OpenListsOnly) =>
           /\ IsRecursionError(top.result)
           /\ top.result.err.span = [start |-> MaxLevels - 1, end |-> MaxLevels]
    /\ (Parsed /\ DeepestLists) => top.result.kind = "Ok"

\* parse_str refused '[' repeated 65 times.
C25_Witness ==
    /\ Parsed /\ OpenListsOnly
    /\ Len(eon_source) = MaxLevels + 1
    /\ IsRecursionError(top.result)
    /\ top.result.err.span.end = MaxLevels


(***************************************************************************)
(* Spans.                                                                  *)
(***************************************************************************)
\* The nodes of the tree parse_str returned.
ParsedNodes == {top.result.val} \cup Nodes(top.result.val.value)

\* parse_str returned the node that parse_top_str builds around a whole file.
WholeFile ==
    \/ ConsumedAsMap
    \/ ConsumedAsList /\ Len(top.list[1].values) # 1

\* The kinds of the token that starts a value and of the token that ends it.
FirstKinds(tag) ==
    CASE tag = "List" -> {"OpenList"}
      [] tag = "Map" -> {"OpenBrace"}
      [] tag \in {"Variant", "QuotedString"} -> StringKinds
      [] tag = "Number" -> {"Number"}
      [] tag = "Identifier" -> {"Identifier"}

LastKinds(tag) ==
    CASE tag = "List" -> {"CloseList"}
      [] tag = "Map" -> {"CloseBrace"}
      [] tag = "Variant" -> {"CloseParen"}
      [] OTHER -> FirstKinds(tag)

\* start <= end <= len(source)
InSource(n) == 0 <= n.span.start /\ n.span.start <= n.span.end /\ n.span.end <= Len(eon_source)

\* The span of n reaches from the first token of its value to the last.
CoversValue(n) ==
    /\ \E t \in Stream : t.span.start = n.span.start /\ t.kind \in FirstKinds(n.value.tag)
    /\ \E t \in Stream : t.span.end = n.span.end /\ t.kind \in LastKinds(n.value.tag)
    /\ IsAtom(n) => \E t \in Stream : t.span = n.span

\* The spans of the nodes under n lie in the span of n.
HoldsChildren(n) ==
    \A child \in Children(n.value) :
        n.span.start <= child.span.start /\ child.span.end <= n.span.end

(***************************************************************************)
(* C26 as stated.  Span invariant of parsed trees: every node returned by  *)
(* parse_str has a span with start <= end <= len(source); the span starts  *)
(* at the first token of the value itself (after its prefix comments) and  *)
(* ends at the end of the value's last token (the closing delimiter for    *)
(* lists, maps and variants), excluding any suffix comment; and the span   *)
(* of every child node lies within the span of its parent.                 *)
(***************************************************************************)
C26_SpansAsStated ==
    (Parsed /\ top.result.kind = "Ok") =>
        \A n \in ParsedNodes : InSource(n) /\ CoversValue(n) /\ HoldsChildren(n)

(***************************************************************************)
(* C26.  Every node returned by parse_str has a span with start <= end <=  *)
(* len(source), and the span of every child node lies within the span of   *)
(* its parent.  The span of a node that parse_token_tree built starts at   *)
(* the first token of the value itself and ends at the end of the value's  *)
(* last token, excluding any suffix comment; the node that parse_top_str   *)
(* builds around a whole file has the span from 0 to len(source).          *)
(***************************************************************************)
C26_Spans ==
    (Parsed /\ top.result.kind = "Ok") =>
        /\ \A n \in ParsedNodes : InSource(n) /\ HoldsChildren(n)
        /\ \A n \in Nodes(top.result.val.value) : CoversValue(n)
        /\ IF WholeFile THEN top.result.val.span = Span(0, Len(eon_source))
           ELSE CoversValue(top.result.val)

\* A whole file of entries, a value of which has comments before and after it.
C26_Witness ==
    /\ Parsed /\ top.result.kind = "Ok"
    /\ WholeFile
    /\ ~CoversValue(top.result.val)
    /\ \E n \in Nodes(top.result.val.value) :
           n.prefix_comments # <<>> /\ n.suffix_comment # None /\ CoversValue(n)


(***************************************************************************)
(* Comments.                                                               *)
(***************************************************************************)
RECURSIVE CommentsIn(_)
\* The comments that the tree under the node n holds: before and after each value,
\* and before each closing delimiter.
CommentsIn(n) ==
    n.prefix_comments
    \o (IF n.suffix_comment = None THEN <<>> ELSE <<n.suffix_comment[1]>>)
    \o Concat([i \in 1..Len(Kids(n.value)) |-> CommentsIn(Kids(n.value)[i])])
    \o (IF n.value.tag \in {"List", "Map", "Variant"} THEN n.value.closing_comments ELSE <<>>)

\* How often the comment that starts at `offset` stands in the tree parse_str returned.
TimesKept(offset) ==
    LET kept == CommentsIn(top.result.val)
    IN  Cardinality({i \in 1..Len(kept) : kept[i].start = offset})

(***************************************************************************)
(* C27.  Comment preservation: for every source that parse_str accepts,    *)
(* every Comment token of the source appears exactly once in the returned  *)
(* tree, as a prefix comment, a suffix comment or a closing comment; no    *)
(* comment is dropped or overwritten (including a suffix comment before an *)
(* optional comma followed by a second comment after it, a comment after a *)
(* key and before ':', and trailing comments after a single top-level      *)
(* value).                                                                 *)
(***************************************************************************)
C27_CommentsPreserved ==
    (Parsed /\ top.result.kind = "Ok") =>
        \A t \in Stream : t.kind = "Comment" => TimesKept(t.span.start) = 1

\* C29: Number equality is consistent with hashing and is an equivalence relation:
\* whenever the comparison of two Numbers a and b answers that they are equal, the
\* two feed the same bytes to a Hasher, and every Number c equal to b is equal to a
\* as well; every Number equals itself and equality does not depend on the order of
\* its operands. This includes the ends of the integer ranges.
C29_EqualityConsistent ==
    Compared =>
        LET a == num_a.number[1].val
            b == num_b.number[1].val
        IN  /\ eq(a, a) /\ eq(b, b)
            /\ num_r.eq[1] = eq(b, a)
            /\ num_r.eq[1] => hash(a) = hash(b)
            /\ \A c \in Numbers : (num_r.eq[1] /\ eq(b, c)) => eq(a, c)

\* C30: parse_str terminates on every finite input: once called, it always
\* eventually returns Ok or Err.
\* Every step of the parser either ends an attempt or lowers a measure that is never
\* negative: a step that turns a loop of parse_list_contents or parse_map_contents
\* again, or that enters parse_token_tree for a value, has consumed at least one
\* token, returns or fails. Within an attempt the iterator never moves back and never
\* past the end of the source, every token is at least one char long, and the calls
\* never nest deeper than the ceiling of the recursion.
Called == top.pc # "idle"

AttemptsLeft ==
    CASE top.pc = "idle" -> 3
      [] top.pc = "map" -> 2
      [] top.pc = "list" -> 1
      [] top.pc = "done" -> 0

Remaining == Len(eon_source) - tokens.pos

\* What is left to do without consuming a token: by the frames that are open and by
\* the result that is being returned.
StackWork ==
    LET at(fns, pcs) ==
            Cardinality({i \in 1..Len(stack) : stack[i].fn \in fns /\ stack[i].pc \in pcs})
        contents == {"parse_list_contents", "parse_map_contents"}
        tree == {"parse_token_tree"}
    IN  5 * at(contents, {"loop"}) + 2 * at(contents, {"key", "value"})
        + 2 * at(tree, {"enter"}) + at(tree, {"list", "map", "variant"})

ReturnWork ==
    CASE ret.kind = "None" -> 0
      [] ret.kind = "Ok" -> 4
      [] OTHER -> 1

Measure == 5 * Remaining + StackWork + ReturnWork

Progress ==
    \/ AttemptsLeft' < AttemptsLeft
    \/ /\ AttemptsLeft' = AttemptsLeft
       /\ Measure' < Measure
       /\ tokens'.pos >= tokens.pos

WithinBounds ==
    /\ Measure >= 0
    /\ tokens.pos \in 0..Len(eon_source)
    /\ Len(stack) <= MAX_RECURSION_DEPTH + 2
    /\ Parsed => top.result.kind \in {"Ok", "Err"}
    /\ Parsed =>
           \A pos \in DOMAIN lexer :
               lexer[pos].some =>
                   /\ pos <= lexer[pos].span.start
                   /\ lexer[pos].span.start < lexer[pos].span.end
                   /\ lexer[pos].span.end <= Len(eon_source)

C30_Terminates ==
    /\ Called ~> Parsed
    /\ [][Progress]_vars
    /\ []WithinBounds

\* Both attempts ran over a source of nested values and comments, and the second
\* returned a value.
C30_Witness ==
    /\ Parsed /\ top.err_a # None /\ top.result.kind = "Ok"
    /\ deepest >= 3
    /\ \E t \in Stream : t.kind = "Comment"
    /\ tokens.pos = Len(eon_source)

=============================================================================
